---- MODULE Spec2Model ----
(***************************************************************************)
(* Constitutional document set of DomVinyard/slices (skill/scripts):      *)
(* amendments, the derived LAW record, the hash chain linking them, the    *)
(* promotion / reconciliation procedures and the frontmatter leases.       *)
(*                                                                         *)
(* The shared state is the filesystem under .constitution/.  Every script  *)
(* is a worker process whose filesystem calls (exists, read_text,          *)
(* write_text, rename, unlink) are the atomic steps; a worker's position   *)
(* is pc[w] and what it holds in memory is loc[w].                         *)
(***************************************************************************)
EXTENDS Integers, Sequences, FiniteSets, TLC

VARIABLES amend, law, now, pc, loc, out, pre, seq, stamped, delegated, call,
          runtime, gate, allowed

vars == <<amend, law, now, pc, loc, out, pre, seq, stamped, delegated, call,
          runtime, gate, allowed>>

(***************************************************************************)
(* Bounds                                                                  *)
(***************************************************************************)
MaxTime == 450
TickSeconds == 150

\* The worker processes
Workers == {"w1", "w2"}

(***************************************************************************)
(* File names.  A name is <prefix emoji + space><base><.suffix emoji>.     *)
(* Two decoration alphabets are in use in skill/scripts: the suffix one    *)
(* (Path.suffix, promote_article / sync_article_hash / hook_pre_tool_use / *)
(* hook_stop_inject_stale_law) and the prefix one (parse_state_emoji of    *)
(* constitutional_paths, used by apply_suitability_result, the after-edit  *)
(* hook and the subagent hooks).  A name carries both positions so each    *)
(* script tests the position its code tests.                               *)
(*                                                                         *)
(* The emoji literals differ between the scripts.  promote_article,        *)
(* hook_pre_tool_use, verify_kernel_hash, the hooks and every caller of    *)
(* constitutional_paths write U+2705 (accepted, active), U+23F3 (review,   *)
(* resolving), U+1F4DD (draft) and U+274C (corrupted).  The files          *)
(* constitutional_paths.py (line 19), sync_article_hash.py (line 7) and    *)
(* promote_founding.py (line 20) hold in their place the strings           *)
(* U+00E2 U+0153 U+2026, U+00E2 U+00B3, U+00F0 U+0178 U+201C and           *)
(* U+00E2 U+0152, the double-encoded forms.  A decoration of the second    *)
(* kind is written <state>_dbl here; a name decorated with one is a        *)
(* different name from the one decorated with the other.                   *)
(***************************************************************************)
Prefixes == {"none", "draft", "accepted"}
Suffixes == {"none", "draft", "accepted", "tmp", "review"}
Founding == ".founding"
Bases == {Founding, "a0", "a1"}

Name(p, b, s) == [pre |-> p, base |-> b, suf |-> s]

\* The names of the model that carry a double-encoded decoration
StoredNames == {Name("draft_dbl", "a1", "none"),
                Name("none", "a0", "accepted_dbl"),
                Name("none", Founding, "accepted_dbl"),
                Name("none", Founding, "review_dbl"),
                Name("none", Founding, "draft_dbl")}
AllNames == [pre : Prefixes, base : Bases, suf : Suffixes] \cup StoredNames

\* Path.suffix
suffix(n) == n.suf
\* Path.with_suffix: replaces the suffix, or appends it when there is none
with_suffix(n, s) == [n EXCEPT !.suf = s]
\* constitutional_paths.VALID_EMOJIS, line 19: the strings the file holds
VALID_EMOJIS == {"draft_dbl", "accepted_dbl", "resolving_dbl", "corrupted_dbl"}
\* constitutional_paths.parse_state_emoji: the member of VALID_EMOJIS the
\* name starts with, or none
parse_state_emoji(n) == IF n.pre \in VALID_EMOJIS THEN n.pre ELSE "none"
\* constitutional_paths.swap_state: make_name(new_emoji, base_name(path)),
\* for a name that starts with a member of VALID_EMOJIS or is undecorated
swap_state(n, e) == [n EXCEPT !.pre = e]
\* str(name).startswith(".founding")
starts_with_founding(n) == n.pre = "none" /\ n.base = Founding
\* sorted(): names compare as strings; "." sorts before the digits of a
\* timestamp, which sort before the first character of a prefix; U+00E2
\* sorts before U+00F0, and both before the emoji.
PreRank(p) ==
    CASE p = "none" -> 0 [] p = "draft_dbl" -> 1 [] p = "accepted" -> 2
      [] p = "draft" -> 3
BaseRank(b) == CASE b = Founding -> 0 [] b = "a0" -> 1 [] b = "a1" -> 2
SufRank(s) ==
    CASE s = "none" -> 0 [] s = "tmp" -> 1 [] s = "review_dbl" -> 2
      [] s = "accepted_dbl" -> 3 [] s = "draft_dbl" -> 4 [] s = "review" -> 5
      [] s = "accepted" -> 6 [] s = "draft" -> 7
Rank(n) == PreRank(n.pre) * 100 + BaseRank(n.base) * 10 + SufRank(n.suf)
RECURSIVE sorted(_)
sorted(S) ==
    IF S = {} THEN <<>>
    ELSE LET m == CHOOSE x \in S : \A y \in S : Rank(x) <= Rank(y)
         IN <<m>> \o sorted(S \ {m})

(***************************************************************************)
(* File contents.  A body is a core text with or without surrounding       *)
(* whitespace; str.strip() drops the whitespace.  sha256 is modelled as an *)
(* injective tag on the stripped text.                                     *)
(***************************************************************************)
Cores == {"A", "B"}
Bodies == {[core |-> "A", pad |-> FALSE], [core |-> "A", pad |-> TRUE],
           [core |-> "B", pad |-> FALSE]}
strip(b) == [b EXCEPT !.pad = FALSE]
sha256(t) == <<"sha256", t.core>>
\* promote_article.normalized_body_hash / apply_suitability_result.body_hash
normalized_body_hash(b) == sha256(strip(b))
body_hash(b) == sha256(strip(b))


\* No file at that path
NoFile == [exists |-> FALSE]
\* Values of apply_ok_at / amendments_hash other than a digest: the field is
\* missing, the pending sentinel, the failure sentinel
Absent == <<"absent">>
Pending == <<"pending">>
Failed == <<"failed">>
\* A lease field that is missing
NoLease == -1
NoName == [pre |-> "none", base |-> "none", suf |-> "none"]

\* An amendment file.  fm: the text has the ---\n ... \n---\n delimiters.
\* Header values are kept quote-stripped and lower-cased, as every reader
\* in the scripts does (.strip('"').strip("'").lower()).
AmendFile(fm, st, ok, ls, ni, b) ==
    [exists |-> TRUE, fm |-> fm, status |-> st, apply_ok_at |-> ok,
     evaluation_started_at |-> ls, needs_input |-> ni, body |-> b]

\* parse_frontmatter: prefix is "" when the delimiters are absent
parse_frontmatter(text) == text.fm

(***************************************************************************)
(* The LAW record.  law[s] is the file .constitution/LAW.<s>.              *)
(***************************************************************************)
LawSuffixes == {"active", "resolving", "corrupted", "tmp",
                "active_dbl", "resolving_dbl", "corrupted_dbl"}

\* decodable: read_text(encoding="utf-8") returns the text; a file whose
\* bytes are not UTF-8 makes it raise UnicodeDecodeError
LawFile(fm, h, lr, sr, ssh, sap, ls) ==
    [exists |-> TRUE, fm |-> fm, amendments_hash |-> h, last_reconciled_amendment |-> lr,
     stale_reason |-> sr, stale_since_hash |-> ssh, stale_amendment_path |-> sap,
     resolution_started_at |-> ls, decodable |-> TRUE]

\* sync_article_hash.discover_law, lines 25-31: the first existing of the
\* law files that carry the suffixes this script holds
sync_discover_law(lw) ==
    IF lw["active_dbl"] # NoFile THEN "active_dbl"
    ELSE IF lw["resolving_dbl"] # NoFile THEN "resolving_dbl"
    ELSE IF lw["corrupted_dbl"] # NoFile THEN "corrupted_dbl"
    ELSE "none"

\* verify_kernel_hash / hook_pre_tool_use discover_law: first existing of
\* active, resolving, corrupted; "none" stands for FileNotFoundError / None.
discover_law(lw) ==
    IF lw["active"] # NoFile THEN "active"
    ELSE IF lw["resolving"] # NoFile THEN "resolving"
    ELSE IF lw["corrupted"] # NoFile THEN "corrupted"
    ELSE "none"

\* extract_body_without_frontmatter: the text after the header, stripped
extract_body_without_frontmatter(text) == strip(text.body)

\* verify_kernel_hash.list_accepted_amendments
list_accepted_amendments(am) ==
    {n \in AllNames : am[n] # NoFile /\ suffix(n) = "accepted"
                         /\ ~starts_with_founding(n)}

\* verify_kernel_hash.discover_founding = "founding": .founding.<accepted>
\* exists
founding_accepted(am) == am[Name("none", Founding, "accepted")] # NoFile

\* sync_article_hash.list_accepted_amendments, lines 43-57: the suffix is
\* compared with the literal this script holds
sync_list_accepted_amendments(am) ==
    {n \in AllNames : am[n] # NoFile /\ suffix(n) = "accepted_dbl"
                         /\ ~starts_with_founding(n)}

\* sync_article_hash.discover_founding = "founding", lines 34-40
sync_founding_accepted(am) == am[Name("none", Founding, "accepted_dbl")] # NoFile

FeedOf(am, n) == <<n, extract_body_without_frontmatter(am[n])>>
Feed(am, ns) == [i \in 1..Len(ns) |-> FeedOf(am, ns[i])]

\* verify_kernel_hash.compute_amendments_hash: the digest of FILE:<path>,
\* stripped body, separator for the accepted founding record and then every
\* accepted amendment in sorted order.
compute_amendments_hash(am) ==
    <<"sha256",
      (IF founding_accepted(am)
       THEN <<FeedOf(am, Name("none", Founding, "accepted"))>> ELSE <<>>)
      \o Feed(am, sorted(list_accepted_amendments(am)))>>

\* sync_article_hash.compute_amendments_hash, lines 68-87: the same feed
\* over the files this script takes for accepted
sync_compute_amendments_hash(am) ==
    <<"sha256",
      (IF sync_founding_accepted(am)
       THEN <<FeedOf(am, Name("none", Founding, "accepted_dbl"))>> ELSE <<>>)
      \o Feed(am, sorted(sync_list_accepted_amendments(am)))>>

(***************************************************************************)
(* Worker locals                                                           *)
(***************************************************************************)
NoLoc == [arg |-> NoName, text |-> NoFile, result |-> "none", reason |-> FALSE,
          hash |-> Absent, last |-> NoName, lawsuf |-> "none", lock |-> "none"]
NoOut == [op |-> "none", res |-> "none", path |-> NoName, arg |-> NoName, lock |-> "none"]
NoSnap == [exists |-> FALSE]
\* No function application is recorded
NoCall == [fn |-> "none"]

AllIdle == \A w \in Workers : pc[w] = "idle"
\* A run may start at any time; in a sequential universe (seq) only when no
\* other run is in progress.
CanStart(w) == pc[w] = "idle" /\ (seq => AllIdle)
Snapshot ==
    IF seq THEN [exists |-> TRUE, amend |-> amend, law |-> law, delegated |-> delegated]
    ELSE NoSnap

\* The run on argument n ends.  In the sequential universe the exit status
\* stays visible (pc = "done") until the process is reaped by Return.
FinishAt(w, op, res, path, n) ==
    /\ pc' = [pc EXCEPT ![w] = IF seq THEN "done" ELSE "idle"]
    /\ out' = [out EXCEPT ![w] =
                  IF seq THEN [op |-> op, res |-> res, path |-> path, arg |-> n,
                               lock |-> loc[w].lock]
                  ELSE NoOut]
    /\ loc' = [loc EXCEPT ![w] = NoLoc]

Finish(w, op, res, path) == FinishAt(w, op, res, path, loc[w].arg)

(***************************************************************************)
(* promote_article.py                                                      *)
(***************************************************************************)
\* Arguments a caller may pass as --article
ArticleArgs ==
    {n \in AllNames \ StoredNames : n.suf \notin {"tmp", "review"} /\ n.pre # "accepted"}

\* Variant: the idempotency check never finds the accepted file
already_promoted_never(am, n) == FALSE

\* main, lines 97-98: accepted_path.exists()
already_promoted(am, n) == am[with_suffix(n, "accepted")] # NoFile

\* main, lines 96-101: the idempotency check
PromoteStart(w, n) ==
    /\ CanStart(w)
    /\ pre' = Snapshot
    /\ IF already_promoted(amend, n)
       THEN FinishAt(w, "promote", "ok", with_suffix(n, "accepted"), n)
       ELSE /\ pc' = [pc EXCEPT ![w] = "pa_check"]
            /\ loc' = [loc EXCEPT ![w] = [NoLoc EXCEPT !.arg = n]]
            /\ out' = [out EXCEPT ![w] = NoOut]
    /\ UNCHANGED <<amend, law, now, seq, call, runtime, gate, allowed, stamped, delegated>>

\* main, lines 103-106: the article exists and carries the draft suffix
PromoteCheck(w) ==
    /\ pc[w] = "pa_check"
    /\ IF amend[loc[w].arg] = NoFile
       THEN Finish(w, "promote", "FileNotFoundError", NoName)
       ELSE IF suffix(loc[w].arg) # "draft"
       THEN Finish(w, "promote", "ValueError", NoName)
       ELSE /\ pc' = [pc EXCEPT ![w] = "pa_read"]
            /\ UNCHANGED <<loc, out>>
    /\ UNCHANGED <<amend, law, now, pre, seq, call, runtime, gate, allowed, stamped, delegated>>

\* Variant: the status check is dropped
promotion_precondition_hash_only(text) ==
    text.apply_ok_at = normalized_body_hash(text.body)

\* main, lines 113-118: status is review and apply_ok_at is the hash of the
\* trimmed body of the text just read
promotion_precondition(text) ==
    /\ text.status = "review"
    /\ text.apply_ok_at = normalized_body_hash(text.body)

\* main, lines 108-128: read the article, check the preconditions, strip
\* the transient fields in memory
PromoteRead(w) ==
    /\ pc[w] = "pa_read"
    /\ LET text == amend[loc[w].arg] IN
       IF text = NoFile
       THEN Finish(w, "promote", "FileNotFoundError", NoName)
       ELSE IF ~parse_frontmatter(text) \/ ~promotion_precondition(text)
       THEN Finish(w, "promote", "ValueError", NoName)
       ELSE /\ pc' = [pc EXCEPT ![w] = "pa_write"]
            /\ loc' = [loc EXCEPT ![w].text =
                          [text EXCEPT !.status = "absent",
                                       !.evaluation_started_at = NoLease]]
            /\ UNCHANGED out
    /\ UNCHANGED <<amend, law, now, pre, seq, call, runtime, gate, allowed, stamped, delegated>>

\* main, line 129: write_map(amendment_path, ...) (write_text creates the
\* file when it is no longer there)
PromoteWrite(w) ==
    /\ pc[w] = "pa_write"
    /\ amend' = [amend EXCEPT ![loc[w].arg] = loc[w].text]
    /\ pc' = [pc EXCEPT ![w] = "pa_rename"]
    /\ loc' = [loc EXCEPT ![w].text = NoFile]
    /\ UNCHANGED <<law, now, out, pre, seq, call, runtime, gate, allowed, stamped, delegated>>

\* main, line 131: rename to the accepted name (replacing a file that is
\* there)
PromoteRename(w) ==
    /\ pc[w] = "pa_rename"
    /\ LET src == loc[w].arg
           dst == with_suffix(src, "accepted") IN
       IF amend[src] = NoFile
       THEN /\ Finish(w, "promote", "FileNotFoundError", NoName)
            /\ UNCHANGED amend
       ELSE /\ amend' = [amend EXCEPT ![dst] = amend[src], ![src] = NoFile]
            /\ pc' = [pc EXCEPT ![w] = "pa_ghost"]
            /\ UNCHANGED <<loc, out>>
    /\ UNCHANGED <<law, now, pre, seq, call, runtime, gate, allowed, stamped, delegated>>

\* main, lines 132-134: unlink the draft name if a race recreated it
PromoteGhost(w) ==
    /\ pc[w] = "pa_ghost"
    /\ amend' = [amend EXCEPT ![loc[w].arg] = NoFile]
    /\ pc' = [pc EXCEPT ![w] = "ml_read"]
    /\ UNCHANGED <<law, now, loc, out, pre, seq, call, runtime, gate, allowed, stamped, delegated>>

\* mark_law_stale, lines 63-77: LAW.<active> exists and has a header; the
\* stale fields are set in memory
MarkLawStaleRead(w) ==
    /\ pc[w] = "ml_read"
    /\ LET text == law["active"] IN
       IF text = NoFile \/ ~parse_frontmatter(text)
       THEN Finish(w, "promote", "ok", with_suffix(loc[w].arg, "accepted"))
       ELSE /\ pc' = [pc EXCEPT ![w] = "ml_write"]
            /\ loc' = [loc EXCEPT ![w].text =
                          [text EXCEPT !.stale_reason = "amendment_accepted",
                                       !.stale_amendment_path =
                                           with_suffix(loc[w].arg, "accepted")]]
            /\ UNCHANGED out
    /\ UNCHANGED <<amend, law, now, pre, seq, call, runtime, gate, allowed, stamped, delegated>>

\* mark_law_stale, line 78: write_map(active_law, ...)
MarkLawStaleWrite(w) ==
    /\ pc[w] = "ml_write"
    /\ law' = [law EXCEPT !["active"] = loc[w].text]
    /\ pc' = [pc EXCEPT ![w] = "ml_rename"]
    /\ loc' = [loc EXCEPT ![w].text = NoFile]
    /\ UNCHANGED <<amend, now, out, pre, seq, call, runtime, gate, allowed, stamped, delegated>>

\* Variant: the law keeps its active decoration
MarkLawStaleRename_keeps_active(w) ==
    /\ pc[w] = "ml_rename"
    /\ Finish(w, "promote", "ok", with_suffix(loc[w].arg, "accepted"))
    /\ UNCHANGED <<amend, law, now, pre, seq, call, runtime, gate, allowed, stamped, delegated>>

\* mark_law_stale, lines 80-81, and main, lines 137-138
MarkLawStaleRename(w) ==
    /\ pc[w] = "ml_rename"
    /\ IF law["active"] = NoFile
       THEN /\ Finish(w, "promote", "FileNotFoundError", NoName)
            /\ UNCHANGED law
       ELSE /\ law' = [law EXCEPT !["resolving"] = law["active"], !["active"] = NoFile]
            /\ Finish(w, "promote", "ok", with_suffix(loc[w].arg, "accepted"))
    /\ UNCHANGED <<amend, now, pre, seq, call, runtime, gate, allowed, stamped, delegated>>

\* The process exits
Return(w) ==
    /\ pc[w] = "done"
    /\ pc' = [pc EXCEPT ![w] = "idle"]
    /\ out' = [out EXCEPT ![w] = NoOut]
    /\ pre' = NoSnap
    /\ UNCHANGED <<amend, law, now, loc, seq, call, runtime, gate, allowed, stamped, delegated>>


\* The process of a promotion dies between two of its steps; the step it
\* had reached and whether LAW.<active> was there when it started are kept
PromoteSteps == {"pa_check", "pa_read", "pa_write", "pa_rename", "pa_ghost",
                 "ml_read", "ml_write", "ml_rename"}
Crash(w) ==
    /\ pc[w] \in PromoteSteps
    /\ call = NoCall
    /\ call' = [fn |-> "crash", arg |-> loc[w].arg,
                res |-> [at |-> pc[w], law_active |-> law["active"] # NoFile]]
    /\ pc' = [pc EXCEPT ![w] = "idle"]
    /\ loc' = [loc EXCEPT ![w] = NoLoc]
    /\ pre' = NoSnap
    /\ UNCHANGED <<amend, law, now, out, seq, runtime, gate, allowed, stamped, delegated>>


(***************************************************************************)
(* promote_founding.py                                                     *)
(***************************************************************************)
FoundingReview == Name("none", Founding, "review_dbl")

\* discover_founding, lines 17-24: the first existing of .founding with the
\* accepted, the review and the draft suffix as this script holds them;
\* "none" stands for None
discover_founding(am) ==
    IF am[Name("none", Founding, "accepted_dbl")] # NoFile THEN "founding"
    ELSE IF am[FoundingReview] # NoFile THEN "review"
    ELSE IF am[Name("none", Founding, "draft_dbl")] # NoFile THEN "draft"
    ELSE "none"

\* main, lines 65-77: the founding record must be in the review state
PromoteFoundingStart(w) ==
    /\ CanStart(w)
    /\ pre' = Snapshot
    /\ LET state == discover_founding(amend) IN
       IF state = "none"
       THEN FinishAt(w, "promote_founding", "FileNotFoundError", NoName, NoName)
       ELSE IF state # "review"
       THEN FinishAt(w, "promote_founding", "ValueError", NoName, NoName)
       ELSE /\ pc' = [pc EXCEPT ![w] = "pf_read"]
            /\ loc' = [loc EXCEPT ![w] = [NoLoc EXCEPT !.arg = FoundingReview]]
            /\ out' = [out EXCEPT ![w] = NoOut]
    /\ UNCHANGED <<amend, law, now, seq, call, runtime, gate, allowed, stamped, delegated>>

\* main, lines 79-97: read the record, check the stamp against the hash of
\* the trimmed body, strip the transient fields in memory
PromoteFoundingRead(w) ==
    /\ pc[w] = "pf_read"
    /\ LET text == amend[loc[w].arg] IN
       IF text = NoFile
       THEN Finish(w, "promote_founding", "FileNotFoundError", NoName)
       ELSE IF ~parse_frontmatter(text) \/ text.apply_ok_at # body_hash(text.body)
       THEN Finish(w, "promote_founding", "ValueError", NoName)
       ELSE /\ pc' = [pc EXCEPT ![w] = "pf_write"]
            /\ loc' = [loc EXCEPT ![w].text =
                          [text EXCEPT !.status = "absent",
                                       !.apply_ok_at = Absent,
                                       !.evaluation_started_at = NoLease,
                                       !.needs_input = FALSE]]
            /\ UNCHANGED out
    /\ UNCHANGED <<amend, law, now, pre, seq, call, runtime, gate, allowed, stamped, delegated>>

\* main, line 99: write_map(founding_path, ...)
PromoteFoundingWrite(w) ==
    /\ pc[w] = "pf_write"
    /\ amend' = [amend EXCEPT ![loc[w].arg] = loc[w].text]
    /\ pc' = [pc EXCEPT ![w] = "pf_rename"]
    /\ loc' = [loc EXCEPT ![w].text = NoFile]
    /\ UNCHANGED <<law, now, out, pre, seq, call, runtime, gate, allowed, stamped, delegated>>

\* main, lines 102-106: rename to .founding with the accepted suffix of this
\* script and return
PromoteFoundingRename(w) ==
    /\ pc[w] = "pf_rename"
    /\ LET src == loc[w].arg
           dst == with_suffix(src, "accepted_dbl") IN
       IF amend[src] = NoFile
       THEN /\ Finish(w, "promote_founding", "FileNotFoundError", NoName)
            /\ UNCHANGED amend
       ELSE /\ amend' = [amend EXCEPT ![dst] = amend[src], ![src] = NoFile]
            /\ Finish(w, "promote_founding", "ok", dst)
    /\ UNCHANGED <<law, now, pre, seq, call, runtime, gate, allowed, stamped, delegated>>

(***************************************************************************)
(* apply_suitability_result.py                                             *)
(***************************************************************************)
RecordId(n) == <<n.pre, n.base>>

\* main, lines 84-87: the article exists and carries the draft prefix
SuitabilityStart(w, n, result, reason) ==
    /\ CanStart(w)
    /\ pre' = Snapshot
    /\ IF amend[n] = NoFile
       THEN FinishAt(w, "suitability", "FileNotFoundError", NoName, n)
       ELSE IF parse_state_emoji(n) # "draft"
       THEN FinishAt(w, "suitability", "ValueError: only to draft amendments", NoName, n)
       ELSE /\ pc' = [pc EXCEPT ![w] = "as_read"]
            /\ loc' = [loc EXCEPT ![w] =
                          [NoLoc EXCEPT !.arg = n, !.result = result, !.reason = reason]]
            /\ out' = [out EXCEPT ![w] = NoOut]
    /\ UNCHANGED <<amend, law, now, seq, call, runtime, gate, allowed, stamped, delegated>>

\* main, lines 95-104: APPLY_OK
apply_ok(text) ==
    [text EXCEPT !.status = IF text.status = "needs_input" THEN "draft" ELSE @,
                 !.apply_ok_at = body_hash(text.body),
                 !.needs_input = FALSE]

\* main, lines 106-110: NEEDS_INPUT
needs_input(text) ==
    [text EXCEPT !.status = "needs_input", !.apply_ok_at = Failed, !.needs_input = TRUE]

\* main, lines 89-111: read the article and build the new header in memory
SuitabilityRead(w) ==
    /\ pc[w] = "as_read"
    /\ LET text == amend[loc[w].arg] IN
       IF text = NoFile
       THEN Finish(w, "suitability", "FileNotFoundError", NoName)
       ELSE IF ~parse_frontmatter(text)
       THEN Finish(w, "suitability", "ValueError", NoName)
       ELSE IF loc[w].result = "NEEDS_INPUT" /\ ~loc[w].reason
       THEN Finish(w, "suitability", "ValueError", NoName)
       ELSE /\ pc' = [pc EXCEPT ![w] = "as_write"]
            /\ loc' = [loc EXCEPT ![w].text =
                          IF loc[w].result = "APPLY_OK" THEN apply_ok(text)
                          ELSE needs_input(text)]
            /\ UNCHANGED out
    /\ UNCHANGED <<amend, law, now, pre, seq, call, runtime, gate, allowed, stamped, delegated>>

\* main, line 112: write_map(amendment_path, ...).  stamped remembers every
\* digest an APPLY_OK run has written, per record.
SuitabilityWrite(w) ==
    /\ pc[w] = "as_write"
    /\ amend' = [amend EXCEPT ![loc[w].arg] = loc[w].text]
    /\ stamped' = IF loc[w].result = "APPLY_OK"
                  THEN stamped \cup {<<RecordId(loc[w].arg), loc[w].text.apply_ok_at>>}
                  ELSE stamped
    /\ Finish(w, "suitability", loc[w].result, loc[w].arg)
    /\ UNCHANGED <<law, now, pre, seq, call, runtime, gate, allowed, delegated>>

(***************************************************************************)
(* hook_after_file_edit.py                                                 *)
(***************************************************************************)
\* is_draft_amendment: under amendments/ and carrying the draft prefix
is_draft_amendment(n) == parse_state_emoji(n) = "draft"

\* main, lines 73-87: the guards, the read, the pending stamp in memory
AfterEditStart(w, n) ==
    /\ CanStart(w)
    /\ pre' = Snapshot
    /\ LET text == amend[n] IN
       IF \/ text = NoFile
          \/ ~is_draft_amendment(n)
          \/ amend[swap_state(n, "accepted")] # NoFile
          \/ ~parse_frontmatter(text)
          \/ text.status \notin {"draft", "review"}
       THEN FinishAt(w, "after_edit", "skip", NoName, n)
       ELSE /\ pc' = [pc EXCEPT ![w] = "af_write"]
            /\ loc' = [loc EXCEPT ![w] =
                          [NoLoc EXCEPT !.arg = n,
                                        !.text = [text EXCEPT !.apply_ok_at = Pending]]]
            /\ out' = [out EXCEPT ![w] = NoOut]
    /\ UNCHANGED <<amend, law, now, seq, call, runtime, gate, allowed, stamped, delegated>>

\* main, line 89: write_map(file_path, ...)
AfterEditWrite(w) ==
    /\ pc[w] = "af_write"
    /\ amend' = [amend EXCEPT ![loc[w].arg] = loc[w].text]
    /\ Finish(w, "after_edit", "ok", loc[w].arg)
    /\ UNCHANGED <<law, now, pre, seq, call, runtime, gate, allowed, stamped, delegated>>

(***************************************************************************)
(* Direct writes the pre-tool-use gate allows: an author edits a draft.    *)
(* hook_pre_tool_use.main, lines 335-351: an existing amendment file whose *)
(* suffix is the draft one may be written unless the payload sets          *)
(* status: accepted; a file without a valid suffix is not an amendment     *)
(* file to the gate.                                                       *)
(***************************************************************************)
Editable(n) == amend[n] # NoFile /\ suffix(n) \in {"draft", "none"}

EditBody(n, b) ==
    /\ seq => AllIdle
    /\ Editable(n)
    /\ amend[n].body # b
    /\ amend' = [amend EXCEPT ![n].body = b]
    /\ UNCHANGED <<law, now, pc, loc, out, pre, seq, call, runtime, gate, allowed, stamped, delegated>>

EditStatus(n, st) ==
    /\ seq => AllIdle
    /\ Editable(n)
    /\ parse_frontmatter(amend[n])
    /\ amend[n].status # st
    /\ amend' = [amend EXCEPT ![n].status = st]
    /\ UNCHANGED <<law, now, pc, loc, out, pre, seq, call, runtime, gate, allowed, stamped, delegated>>


(***************************************************************************)
(* sync_article_hash.py (reconciliation)                                   *)
(***************************************************************************)
\* main, line 151: discover_law
SyncStart(w) ==
    /\ CanStart(w)
    /\ pre' = Snapshot
    /\ IF sync_discover_law(law) = "none"
       THEN Finish(w, "sync", "FileNotFoundError", NoName)
       ELSE /\ pc' = [pc EXCEPT ![w] = "sy_hash"]
            /\ loc' = [loc EXCEPT ![w] = [NoLoc EXCEPT !.lawsuf = sync_discover_law(law)]]
            /\ out' = [out EXCEPT ![w] = NoOut]
    /\ UNCHANGED <<amend, law, now, seq, call, runtime, gate, allowed, stamped, delegated>>

\* latest_accepted_amendment_stem: the stem of the last accepted amendment
\* in sorted order, or None
latest_accepted_amendment_stem(am) ==
    LET accepted == sorted(sync_list_accepted_amendments(am)) IN
    IF accepted = <<>> THEN NoName
    ELSE with_suffix(accepted[Len(accepted)], "none")

\* main, lines 152-153
SyncHash(w) ==
    /\ pc[w] = "sy_hash"
    /\ loc' = [loc EXCEPT ![w].hash = sync_compute_amendments_hash(amend),
                          ![w].last = latest_accepted_amendment_stem(amend)]
    /\ pc' = [pc EXCEPT ![w] = "sy_read"]
    /\ UNCHANGED <<amend, law, now, out, pre, seq, call, runtime, gate, allowed, stamped, delegated>>

\* upsert_amendments_hash: the fingerprint and the last reconciled amendment
\* are set, the stale and lease fields removed
upsert_amendments_hash(text, new_hash, last_amendment) ==
    [text EXCEPT !.amendments_hash = new_hash,
                 !.last_reconciled_amendment =
                     IF last_amendment # NoName THEN last_amendment ELSE @,
                 !.stale_reason = "absent",
                 !.stale_since_hash = Absent,
                 !.stale_amendment_path = NoName,
                 !.resolution_started_at = NoLease]

\* main, lines 155-158: read the law, parse_frontmatter_parts raises on a
\* text without the delimiters
SyncRead(w) ==
    /\ pc[w] = "sy_read"
    /\ LET text == law[loc[w].lawsuf] IN
       IF text = NoFile
       THEN Finish(w, "sync", "FileNotFoundError", NoName)
       ELSE IF ~parse_frontmatter(text)
       THEN Finish(w, "sync", "ValueError", NoName)
       ELSE /\ pc' = [pc EXCEPT ![w] = "sy_write"]
            /\ loc' = [loc EXCEPT ![w].text =
                          upsert_amendments_hash(text, loc[w].hash, loc[w].last),
                                  ![w].hash = Absent, ![w].last = NoName]
            /\ UNCHANGED out
    /\ UNCHANGED <<amend, law, now, pre, seq, call, runtime, gate, allowed, stamped, delegated>>

\* main, lines 162-163: law_path.write_text; no rename follows when the law
\* found was the one this script takes for active
SyncWrite(w) ==
    /\ pc[w] = "sy_write"
    /\ law' = [law EXCEPT ![loc[w].lawsuf] = loc[w].text]
    /\ IF loc[w].lawsuf = "active_dbl"
       THEN Finish(w, "sync", "ok", NoName)
       ELSE /\ pc' = [pc EXCEPT ![w] = "sy_rename"]
            /\ loc' = [loc EXCEPT ![w] = [NoLoc EXCEPT !.lawsuf = loc[w].lawsuf]]
            /\ UNCHANGED out
    /\ UNCHANGED <<amend, now, pre, seq, call, runtime, gate, allowed, stamped, delegated>>

\* main, line 164: law_path.rename(active_path)
SyncRename(w) ==
    /\ pc[w] = "sy_rename"
    /\ IF law[loc[w].lawsuf] = NoFile
       THEN /\ Finish(w, "sync", "FileNotFoundError", NoName)
            /\ UNCHANGED law
       ELSE /\ law' = [law EXCEPT !["active_dbl"] = law[loc[w].lawsuf],
                                  ![loc[w].lawsuf] = NoFile]
            /\ Finish(w, "sync", "ok", NoName)
    /\ UNCHANGED <<amend, now, pre, seq, call, runtime, gate, allowed, stamped, delegated>>

(***************************************************************************)
(* hook_pre_tool_use.py: the drift check every gate invocation starts with *)
(***************************************************************************)
\* hook_pre_tool_use.list_accepted_amendments: every file of amendments/
\* with the accepted suffix (.founding is not excluded here)
gate_list_accepted_amendments(am) ==
    {n \in AllNames : am[n] # NoFile /\ suffix(n) = "accepted"}

\* hook_pre_tool_use.compute_amendments_hash.  Its discover_founding looks
\* for .constitution/FOUNDING.<suffix>, a path outside amendments/ that no
\* script writes; the founding part of its feed is therefore empty.
gate_compute_amendments_hash(am) ==
    <<"sha256", Feed(am, sorted(gate_list_accepted_amendments(am)))>>

\* mark_law_stale_if_drift, lines 216-221
DriftStart(w) ==
    /\ CanStart(w)
    /\ pre' = Snapshot
    /\ IF discover_law(law) # "active"
       THEN Finish(w, "gate", "no_active_law", NoName)
       ELSE /\ pc' = [pc EXCEPT ![w] = "dr_hash"]
            /\ loc' = [loc EXCEPT ![w] = NoLoc]
            /\ out' = [out EXCEPT ![w] = NoOut]
    /\ UNCHANGED <<amend, law, now, seq, call, runtime, gate, allowed, stamped, delegated>>

\* mark_law_stale_if_drift, line 223
DriftHash(w) ==
    /\ pc[w] = "dr_hash"
    /\ loc' = [loc EXCEPT ![w].hash = gate_compute_amendments_hash(amend)]
    /\ pc' = [pc EXCEPT ![w] = "dr_read"]
    /\ UNCHANGED <<amend, law, now, out, pre, seq, call, runtime, gate, allowed, stamped, delegated>>

\* mark_law_stale_if_drift, lines 224-240
DriftRead(w) ==
    /\ pc[w] = "dr_read"
    /\ LET text == law["active"] IN
       IF text = NoFile
       THEN Finish(w, "gate", "FileNotFoundError", NoName)
       ELSE IF ~parse_frontmatter(text) \/ text.amendments_hash = loc[w].hash
       THEN Finish(w, "gate", "no_drift", NoName)
       ELSE /\ pc' = [pc EXCEPT ![w] = "dr_write"]
            /\ loc' = [loc EXCEPT ![w].text =
                          [text EXCEPT !.stale_reason = "amendments_drift_detected",
                                       !.stale_since_hash = text.amendments_hash,
                                       !.stale_amendment_path = NoName],
                                  ![w].hash = Absent]
            /\ UNCHANGED out
    /\ UNCHANGED <<amend, law, now, pre, seq, call, runtime, gate, allowed, stamped, delegated>>

\* mark_law_stale_if_drift, line 241: write_frontmatter(law_path, ...)
DriftWrite(w) ==
    /\ pc[w] = "dr_write"
    /\ law' = [law EXCEPT !["active"] = loc[w].text]
    /\ pc' = [pc EXCEPT ![w] = "dr_rename"]
    /\ loc' = [loc EXCEPT ![w].text = NoFile]
    /\ UNCHANGED <<amend, now, out, pre, seq, call, runtime, gate, allowed, stamped, delegated>>

\* mark_law_stale_if_drift, lines 242-243
DriftRename(w) ==
    /\ pc[w] = "dr_rename"
    /\ IF law["active"] = NoFile
       THEN /\ Finish(w, "gate", "FileNotFoundError", NoName)
            /\ UNCHANGED law
       ELSE /\ law' = [law EXCEPT !["resolving"] = law["active"], !["active"] = NoFile]
            /\ Finish(w, "gate", "marked_stale", NoName)
    /\ UNCHANGED <<amend, now, pre, seq, call, runtime, gate, allowed, stamped, delegated>>


(***************************************************************************)
(* hook_stop_inject_stale_law.py (the turn-boundary hook)                  *)
(***************************************************************************)
LOCK_TIMEOUT_SECONDS == 300

\* _needs_eval: status is review and apply_ok_at is missing, pending or not
\* the hash of the body
needs_eval(text) ==
    /\ parse_frontmatter(text)
    /\ text.status = "review"
    /\ text.apply_ok_at # body_hash(text.body)

FoundingDraft == Name("none", Founding, "draft")

\* drafts_needing_suitability: the founding draft if it needs evaluation,
\* else the draft-suffixed amendments that need it, in sorted order
drafts_needing_suitability(am) ==
    IF am[FoundingDraft] # NoFile /\ needs_eval(am[FoundingDraft])
    THEN <<FoundingDraft>>
    ELSE sorted({n \in AllNames : /\ am[n] # NoFile
                                  /\ suffix(n) = "draft"
                                  /\ ~starts_with_founding(n)
                                  /\ needs_eval(am[n])})

\* Variant: a lease never expires
check_lock_never_stale(started_at, t) ==
    IF started_at = NoLease THEN "available" ELSE "locked"

\* check_lock on a timestamp read from the lease field at time t
check_lock(started_at, t) ==
    IF started_at = NoLease THEN "available"
    ELSE IF t - started_at >= LOCK_TIMEOUT_SECONDS THEN "stale"
    ELSE "locked"

\* verify_kernel_hash.main as the hook's subprocess: exit status 0 iff the
\* law found is the active one and its stored fingerprint is the hash chain
verify_kernel_hash(am, lw) ==
    /\ discover_law(lw) = "active"
    /\ lw["active"].amendments_hash = compute_amendments_hash(am)

\* Variant: the hook never backs off
backs_off_never(lock_state) == FALSE

\* main, line 169 / 210: a fresh foreign lock makes the hook back off
backs_off(lock_state) == lock_state = "locked"

\* The lease field of the record the hook locks: evaluation_started_at of a
\* draft, resolution_started_at of LAW.<resolving>
OnLaw(w) == loc[w].lawsuf = "resolving"
LockFile(w) == IF OnLaw(w) THEN law["resolving"] ELSE amend[loc[w].arg]
LeaseOf(text) ==
    IF text = NoFile \/ ~parse_frontmatter(text) THEN NoLease
    ELSE IF "resolution_started_at" \in DOMAIN text THEN text.resolution_started_at
    ELSE text.evaluation_started_at
Role(w) == IF OnLaw(w) THEN "codifier"
           ELSE IF loc[w].arg = FoundingDraft THEN "framer" ELSE "ratifier"

Delegate(w) ==
    /\ delegated' = delegated \cup {<<w, Role(w), loc[w].arg, now>>}
    /\ Finish(w, "stop", "delegated", loc[w].arg)

\* main, lines 156-166 and 187-207: pick the record to lock; with no draft
\* to evaluate run the verifier and stop when it passes
StopStart(w) ==
    /\ CanStart(w)
    /\ pre' = Snapshot
    /\ LET needs == drafts_needing_suitability(amend) IN
       IF needs # <<>>
       THEN /\ pc' = [pc EXCEPT ![w] = "st_check"]
            /\ loc' = [loc EXCEPT ![w] = [NoLoc EXCEPT !.arg = needs[1]]]
            /\ out' = [out EXCEPT ![w] = NoOut]
       ELSE IF verify_kernel_hash(amend, law)
       THEN FinishAt(w, "stop", "pass", NoName, NoName)
       ELSE /\ pc' = [pc EXCEPT ![w] = "st_check"]
            /\ loc' = [loc EXCEPT ![w] = [NoLoc EXCEPT !.lawsuf = "resolving"]]
            /\ out' = [out EXCEPT ![w] = NoOut]
    /\ UNCHANGED <<amend, law, now, seq, call, runtime, gate, allowed, stamped, delegated>>

\* main, lines 167 / 208: check_lock reads the lease field
StopCheck(w) ==
    /\ pc[w] = "st_check"
    /\ pc' = [pc EXCEPT ![w] = "st_act"]
    /\ loc' = [loc EXCEPT ![w].lock = check_lock(LeaseOf(LockFile(w)), now)]
    /\ UNCHANGED <<amend, law, now, out, pre, seq, call, runtime, gate, allowed, stamped, delegated>>

\* main, lines 169-177 / 210-219: back off on a fresh lock, clear a stale
\* one first, delegate at once when LAW.<resolving> does not exist
StopAct(w) ==
    /\ pc[w] = "st_act"
    /\ IF backs_off(loc[w].lock)
       THEN /\ FinishAt(w, "stop", "backoff", NoName, loc[w].arg)
            /\ UNCHANGED delegated
       ELSE IF OnLaw(w) /\ LockFile(w) = NoFile
       THEN Delegate(w)
       ELSE /\ pc' = [pc EXCEPT ![w] = "wf_read"]
            /\ loc' = [loc EXCEPT ![w].result =
                          IF loc[w].lock = "stale" THEN "clear" ELSE "set"]
            /\ UNCHANGED <<out, delegated>>
    /\ UNCHANGED <<amend, law, now, pre, seq, call, runtime, gate, allowed, stamped>>

\* write_frontmatter_field, lines 82-107: read the text and build the
\* updated text with the field removed (value None) or set to _now_iso()
set_field(text, value) ==
    IF "resolution_started_at" \in DOMAIN text
    THEN [text EXCEPT !.resolution_started_at = value]
    ELSE [text EXCEPT !.evaluation_started_at = value]

WriteFieldRead(w) ==
    /\ pc[w] = "wf_read"
    /\ LET text == LockFile(w)
           value == IF loc[w].result = "clear" THEN NoLease ELSE now IN
       IF text = NoFile /\ OnLaw(w) /\ loc[w].result = "set"
       THEN Delegate(w)
       ELSE IF text = NoFile
       THEN /\ Finish(w, "stop", "FileNotFoundError", NoName)
            /\ UNCHANGED delegated
       ELSE IF ~parse_frontmatter(text)
       THEN IF loc[w].result = "clear"
            THEN /\ loc' = [loc EXCEPT ![w].result = "set"]
                 /\ UNCHANGED <<pc, out, delegated>>
            ELSE Delegate(w)
       ELSE /\ pc' = [pc EXCEPT ![w] = "wf_tmp"]
            /\ loc' = [loc EXCEPT ![w].text = set_field(text, value)]
            /\ UNCHANGED <<out, delegated>>
    /\ UNCHANGED <<amend, law, now, pre, seq, call, runtime, gate, allowed, stamped>>

\* write_frontmatter_field, lines 108-109: tmp = path.with_suffix(".tmp")
WriteFieldTmp(w) ==
    /\ pc[w] = "wf_tmp"
    /\ IF OnLaw(w)
       THEN law' = [law EXCEPT !["tmp"] = loc[w].text] /\ UNCHANGED amend
       ELSE amend' = [amend EXCEPT ![with_suffix(loc[w].arg, "tmp")] = loc[w].text]
            /\ UNCHANGED law
    /\ pc' = [pc EXCEPT ![w] = "wf_rename"]
    /\ loc' = [loc EXCEPT ![w].text = NoFile]
    /\ UNCHANGED <<now, out, pre, seq, call, runtime, gate, allowed, stamped, delegated>>

\* write_frontmatter_field, line 110: tmp.rename(path); after the clearing
\* write comes the setting write (main, line 177 / 219), after that the
\* delegation message (lines 178-185 / 221-231)
WriteFieldRename(w) ==
    /\ pc[w] = "wf_rename"
    /\ LET tmp == IF OnLaw(w) THEN law["tmp"] ELSE amend[with_suffix(loc[w].arg, "tmp")] IN
       IF tmp = NoFile
       THEN /\ Finish(w, "stop", "FileNotFoundError", NoName)
            /\ UNCHANGED <<amend, law, delegated>>
       ELSE /\ IF OnLaw(w)
               THEN law' = [law EXCEPT !["resolving"] = tmp, !["tmp"] = NoFile]
                    /\ UNCHANGED amend
               ELSE amend' = [amend EXCEPT ![loc[w].arg] = tmp,
                                           ![with_suffix(loc[w].arg, "tmp")] = NoFile]
                    /\ UNCHANGED law
            /\ IF loc[w].result = "clear"
               THEN /\ pc' = [pc EXCEPT ![w] = "wf_read"]
                    /\ loc' = [loc EXCEPT ![w].result = "set"]
                    /\ UNCHANGED <<out, delegated>>
               ELSE Delegate(w)
    /\ UNCHANGED <<now, pre, seq, call, runtime, gate, allowed, stamped>>

\* Time passes
Tick ==
    /\ seq => AllIdle
    /\ now < MaxTime
    /\ now' = now + TickSeconds
    /\ UNCHANGED <<amend, law, pc, loc, out, pre, seq, call, runtime, gate, allowed, stamped, delegated>>

(***************************************************************************)
(* Path.write_text(text) on the path of the record itself: the file is     *)
(* opened with mode "w", which creates or truncates it, and the text is    *)
(* written after that.  Between the two the file is empty.                 *)
(***************************************************************************)
EmptyBody == [core |-> "", pad |-> FALSE]
TruncatedAmendment == AmendFile(FALSE, "absent", Absent, NoLease, FALSE, EmptyBody)
TruncatedLaw == LawFile(FALSE, Absent, NoName, "absent", Absent, NoName, NoLease)

\* The steps whose next statement is write_map / write_frontmatter /
\* write_text on an amendment (promote_article 52, apply_suitability_result
\* 65, hook_after_file_edit 51) and on the law (promote_article 52 from
\* mark_law_stale, hook_pre_tool_use 211, sync_article_hash 162)
WritesAmendmentInPlace == {"pa_write", "as_write", "af_write"}
WritesLawInPlace == {"ml_write", "dr_write", "sy_write"}

OpenForWrite(w) ==
    /\ \/ /\ pc[w] \in WritesAmendmentInPlace
          /\ amend[loc[w].arg] # TruncatedAmendment
          /\ amend' = [amend EXCEPT ![loc[w].arg] = TruncatedAmendment]
          /\ UNCHANGED law
       \/ /\ pc[w] \in WritesLawInPlace
          /\ LET s == IF pc[w] = "sy_write" THEN loc[w].lawsuf ELSE "active" IN
             /\ law[s] # TruncatedLaw
             /\ law' = [law EXCEPT ![s] = TruncatedLaw]
          /\ UNCHANGED amend
    /\ UNCHANGED <<now, pc, loc, out, pre, seq, call, runtime, gate, allowed,
                   stamped, delegated>>

(***************************************************************************)
(* File text.  A header is the text between the delimiters, a sequence of  *)
(* line texts and line terminators: "lease" is a line <field>: <value> of  *)
(* the field an operation addresses, "status" a line of any other field,   *)
(* "junk" a text without colon.                                            *)
(***************************************************************************)
MaxHeaderLen == 3
MaxBodyLen == 2

HeaderTokens == {"lease", "status", "junk", "LF", "CRLF"}
BodyTokens == {"x", "LF", "CRLF"}
Newlines == {"LF", "CRLF"}
SeqsUpTo(S, n) == UNION {[1..k -> S] : k \in 0..n}

\* A file as bytes on disk; delims: it starts with ---\n and has \n---\n
DiskTexts ==
    {[delims |-> dl, header |-> h, body |-> b] :
        dl \in BOOLEAN, h \in SeqsUpTo(HeaderTokens, MaxHeaderLen),
        b \in SeqsUpTo(BodyTokens, MaxBodyLen)}

\* Path.read_text: text mode with universal newlines, \r\n is read as \n
universal_newlines(t) == [i \in 1..Len(t) |-> IF t[i] = "CRLF" THEN "LF" ELSE t[i]]
read_text(file) ==
    [file EXCEPT !.header = universal_newlines(@), !.body = universal_newlines(@)]

\* str.splitlines: no empty last line after a final terminator
RECURSIVE splitlines_from(_, _, _)
splitlines_from(t, i, cur) ==
    IF i > Len(t) THEN (IF cur = <<>> THEN <<>> ELSE <<cur>>)
    ELSE IF t[i] \in Newlines THEN <<cur>> \o splitlines_from(t, i + 1, <<>>)
    ELSE splitlines_from(t, i + 1, Append(cur, t[i]))
splitlines(t) == splitlines_from(t, 1, <<>>)

\* "\n".join(lines)
RECURSIVE join(_)
join(lines) ==
    IF lines = <<>> THEN <<>>
    ELSE IF Len(lines) = 1 THEN lines[1]
    ELSE lines[1] \o <<"LF">> \o join(Tail(lines))

\* line.split(":", 1)[0].strip() of a line that contains a colon
line_key(line) == IF line = <<>> \/ line[1] = "junk" THEN "none" ELSE line[1]

\* Variant: the other field's lines are dropped as well
drop_field_any_key(lines) == SelectSeq(lines, LAMBDA l : line_key(l) = "none")

\* write_frontmatter_field with value None, lines 48-59: every line whose
\* key is the field is dropped
drop_field(lines) == SelectSeq(lines, LAMBDA l : line_key(l) # "lease")

\* hook_subagent_stop.write_frontmatter_field(path, field, None): the text
\* the file holds afterwards; a file without delimiters is not written
release(file) ==
    IF ~file.delims THEN file
    ELSE LET text == read_text(file) IN
         [text EXCEPT !.header = join(drop_field(splitlines(text.header)))]

(***************************************************************************)
(* The hash chain on file text (sync_article_hash.compute_amendments_hash  *)
(* applied to a directory of texts that is enumerated in some order)       *)
(***************************************************************************)
MaxFeedBody == 3

\* str.strip: the whitespace at both ends is dropped
RECURSIVE lstrip_text(_)
lstrip_text(t) ==
    IF t # <<>> /\ Head(t) \in Newlines THEN lstrip_text(Tail(t)) ELSE t
RECURSIVE rstrip_text(_)
rstrip_text(t) ==
    IF t # <<>> /\ t[Len(t)] \in Newlines THEN rstrip_text(SubSeq(t, 1, Len(t) - 1)) ELSE t
strip_text(t) == rstrip_text(lstrip_text(t))

\* extract_body_without_frontmatter(path.read_text()): without delimiters
\* the whole text is the body
extract_body_text(file) ==
    LET text == read_text(file) IN
    strip_text(IF text.delims THEN text.body ELSE text.header \o text.body)

\* Variant: the records are fed in the order of enumeration
enumerated_accepted_unsorted(order) ==
    SelectSeq(order, LAMBDA n : suffix(n) = "accepted" /\ ~starts_with_founding(n))

\* list_accepted_amendments over directory.iterdir() in the order given
enumerated_accepted(order) ==
    sorted({order[i] : i \in {j \in 1..Len(order) :
                suffix(order[j]) = "accepted" /\ ~starts_with_founding(order[j])}})

\* compute_amendments_hash: dir maps a name to its text, order is the
\* enumeration of the names present
amendments_digest(dir, order) ==
    LET founding == Name("none", Founding, "accepted")
        accepted == enumerated_accepted(order)
    IN <<"sha256",
         (IF dir[founding] # NoFile
          THEN <<<<founding, extract_body_text(dir[founding])>>>> ELSE <<>>)
         \o [i \in 1..Len(accepted) |->
                <<accepted[i], extract_body_text(dir[accepted[i]])>>]>>

(***************************************************************************)
(* Header maps (parse_frontmatter, parse_map and write_map of              *)
(* apply_suitability_result.py and stamp_apply_ok_at.py).  A header is a   *)
(* sequence of lines; a line <key>: <value> carries its key, its value and *)
(* whether blanks surround them, a line without colon has the key "none".  *)
(* crlf: the line terminators of the header are \r\n.                      *)
(***************************************************************************)
MaxHeaderLines == 2

FieldKeys == {"status", "title", "apply_ok_at", "needs_input_request"}
FieldValues == {"draft", "needs_input"}
NoColon == "none"
HeaderLines == [key : FieldKeys \cup {NoColon}, value : FieldValues, padded : BOOLEAN]
MapBodies == {<<>>, <<"x", "LF">>, <<"x", "CRLF", "x">>}
MapTexts ==
    {[delims |-> dl, crlf |-> cr, lines |-> ls, body |-> b] :
        dl \in BOOLEAN, cr \in BOOLEAN,
        ls \in SeqsUpTo(HeaderLines, MaxHeaderLines) \ {<<>>}, b \in MapBodies}

\* A dict: the values at the keys, and the keys in insertion order
EmptyDict == [at |-> <<>>, keys |-> <<>>]
has_key(d, k) == \E i \in 1..Len(d.keys) : d.keys[i] = k
dict_set(d, k, v) ==
    [at |-> (k :> v) @@ d.at, keys |-> IF has_key(d, k) THEN d.keys ELSE Append(d.keys, k)]
dict_del(d, k) ==
    [at |-> [x \in DOMAIN d.at \ {k} |-> d.at[x]],
     keys |-> SelectSeq(d.keys, LAMBDA x : x # k)]
in_list(list, k) == \E i \in 1..Len(list) : list[i] = k

\* parse_frontmatter(path.read_text()): prefix, header lines and body of a
\* text with delimiters; read_text has turned every \r\n into \n
parse_frontmatter_parts(file) ==
    [prefix |-> file.delims,
     frontmatter |-> IF file.delims THEN file.lines ELSE <<>>,
     body |-> universal_newlines(file.body)]

\* parse_map: lines without colon are skipped, key and value are stripped,
\* a key keeps the place of its first line and the value of its last line
RECURSIVE parse_map_from(_, _, _)
parse_map_from(lines, mapping, order) ==
    IF lines = <<>> THEN [mapping |-> mapping, order |-> order]
    ELSE LET line == Head(lines) IN
         IF line.key = NoColon THEN parse_map_from(Tail(lines), mapping, order)
         ELSE parse_map_from(Tail(lines), dict_set(mapping, line.key, line.value),
                             IF in_list(order, line.key) THEN order
                             ELSE Append(order, line.key))
parse_map(frontmatter) == parse_map_from(frontmatter, EmptyDict, <<>>)

\* The text write_map writes: the lines <key>: <value> joined by \n
written_text(keys, mapping, body) ==
    [delims |-> TRUE, crlf |-> FALSE,
     lines |-> [i \in 1..Len(keys) |->
                   [key |-> keys[i], value |-> mapping.at[keys[i]], padded |-> FALSE]],
     body |-> body]

\* Variant: a status that the header lacks is put last
write_map_status_last(body, mapping, order) ==
    LET with_status == IF in_list(order, "status") THEN order ELSE Append(order, "status")
        full == IF in_list(with_status, "apply_ok_at") THEN with_status
                ELSE Append(with_status, "apply_ok_at")
    IN written_text(SelectSeq(full, LAMBDA k : has_key(mapping, k))
                    \o SelectSeq(mapping.keys, LAMBDA k : ~in_list(full, k)),
                    mapping, body)

\* apply_suitability_result.write_map, lines 55-65
write_map(body, mapping, order) ==
    LET with_status == IF in_list(order, "status") THEN order ELSE <<"status">> \o order
        full == IF in_list(with_status, "apply_ok_at") THEN with_status
                ELSE Append(with_status, "apply_ok_at")
    IN written_text(SelectSeq(full, LAMBDA k : has_key(mapping, k))
                    \o SelectSeq(mapping.keys, LAMBDA k : ~in_list(full, k)),
                    mapping, body)

\* stamp_apply_ok_at.write_map, lines 58-64: only the keys of order
stamp_write_map(body, mapping, order) ==
    LET with_status == IF in_list(order, "status") THEN order ELSE <<"status">> \o order
        full == IF in_list(with_status, "apply_ok_at") THEN with_status
                ELSE Append(with_status, "apply_ok_at")
    IN written_text(SelectSeq(full, LAMBDA k : has_key(mapping, k)), mapping, body)

\* What main does to the mapping between parse_map and write_map.
\* "sha256" stands for the quoted body_hash(body) of the file.
HeaderOps == {"write_map", "stamp_pending", "stamp_ok", "APPLY_OK", "NEEDS_INPUT"}
suitability_fields(mapping, result) ==
    IF result = "APPLY_OK"
    THEN LET status == IF has_key(mapping, "status") /\ mapping.at["status"] = "needs_input"
                       THEN dict_set(mapping, "status", "draft") ELSE mapping
         IN dict_del(dict_del(dict_set(status, "apply_ok_at", "sha256"),
                              "needs_input_reason_code"), "needs_input_request")
    ELSE dict_set(dict_set(dict_set(dict_set(mapping,
             "status", "needs_input"), "apply_ok_at", "failed"),
             "needs_input_reason_code", "code"), "needs_input_request", "request")

\* The main functions on the text of a draft: the error raised and the text
\* the file holds afterwards.  given: --reason-code and --request are both
\* non-empty.  "write_map" is write_map applied to what parse_map returned.
rewrite_header(file, op, given) ==
    LET parts == parse_frontmatter_parts(file)
        parsed == parse_map(parts.frontmatter)
    IN IF ~parts.prefix THEN [error |-> "ValueError: frontmatter", text |-> file]
       ELSE IF op = "NEEDS_INPUT" /\ ~given
       THEN [error |-> "ValueError: NEEDS_INPUT requires --reason-code and --request.",
             text |-> file]
       ELSE [error |-> "none",
             text |->
               IF op = "write_map" THEN write_map(parts.body, parsed.mapping, parsed.order)
               ELSE IF op = "stamp_pending"
               THEN stamp_write_map(parts.body,
                        dict_set(parsed.mapping, "apply_ok_at", "pending"), parsed.order)
               ELSE IF op = "stamp_ok"
               THEN stamp_write_map(parts.body,
                        dict_set(parsed.mapping, "apply_ok_at", "sha256"), parsed.order)
               ELSE write_map(parts.body, suitability_fields(parsed.mapping, op),
                              parsed.order)]

(***************************************************************************)
(* sync_article_hash.py on the text of the law.  The header is a sequence  *)
(* of lines as above; "sha256" stands for the quoted hash chain of the     *)
(* directory, "a0" for the quoted stem of the last accepted amendment.     *)
(***************************************************************************)
MaxLawLines == 2

LawKeys == {"amendments_hash", "last_reconciled_amendment", "stale_reason",
            "resolution_started_at", "status", "title"}
LawValues == {"sha256", "other"}
LawLines == [key : LawKeys \cup {NoColon}, value : LawValues, padded : BOOLEAN]
LawBodies == {<<>>, <<"x", "CRLF", "x">>}
LawTexts ==
    {[delims |-> dl, crlf |-> cr, lines |-> ls, body |-> b] :
        dl \in BOOLEAN, cr \in BOOLEAN,
        ls \in SeqsUpTo(LawLines, MaxLawLines), b \in LawBodies}
LastNames == {"None", "a0"}

\* upsert_amendments_hash, lines 129-130: the fields removed
REMOVED_FIELDS == {"stale_reason", "stale_since_hash", "stale_amendment_path",
                   "pending_reason_code", "status", "articles_hash",
                   "stale_article_path", "resolution_started_at"}

dict_del_all(d, ks) ==
    [at |-> [x \in DOMAIN d.at \ ks |-> d.at[x]],
     keys |-> SelectSeq(d.keys, LAMBDA x : x \notin ks)]

\* Variant: the stale and transient fields are left in the header
upsert_amendments_hash_keeps_stale(frontmatter, new_hash, last_amendment) ==
    LET parsed == parse_map(frontmatter)
        hashed == dict_set(parsed.mapping, "amendments_hash", new_hash)
        key_values == IF last_amendment # "None"
                      THEN dict_set(hashed, "last_reconciled_amendment", last_amendment)
                      ELSE hashed
        with_hash == IF in_list(parsed.order, "amendments_hash") THEN parsed.order
                     ELSE Append(parsed.order, "amendments_hash")
        order == IF ~in_list(with_hash, "last_reconciled_amendment")
                    /\ last_amendment # "None"
                 THEN Append(with_hash, "last_reconciled_amendment") ELSE with_hash
        keys == SelectSeq(order, LAMBDA k : has_key(key_values, k))
                \o SelectSeq(key_values.keys, LAMBDA k : ~in_list(order, k))
    IN [i \in 1..Len(keys) |->
           [key |-> keys[i], value |-> key_values.at[keys[i]], padded |-> FALSE]]

\* upsert_amendments_hash, lines 110-147, on the header lines
upsert_amendments_hash_lines(frontmatter, new_hash, last_amendment) ==
    LET parsed == parse_map(frontmatter)
        hashed == dict_set(parsed.mapping, "amendments_hash", new_hash)
        dated == IF last_amendment # "None"
                 THEN dict_set(hashed, "last_reconciled_amendment", last_amendment)
                 ELSE hashed
        key_values == dict_del_all(dated, REMOVED_FIELDS)
        with_hash == IF in_list(parsed.order, "amendments_hash") THEN parsed.order
                     ELSE Append(parsed.order, "amendments_hash")
        order == IF ~in_list(with_hash, "last_reconciled_amendment")
                    /\ last_amendment # "None"
                 THEN Append(with_hash, "last_reconciled_amendment") ELSE with_hash
        keys == SelectSeq(order, LAMBDA k : has_key(key_values, k))
                \o SelectSeq(key_values.keys, LAMBDA k : ~in_list(order, k))
    IN [i \in 1..Len(keys) |->
           [key |-> keys[i], value |-> key_values.at[keys[i]], padded |-> FALSE]]

\* main, lines 155-162, on the text of the law: parse_frontmatter_parts
\* raises on a text without the delimiters, else the text is rewritten
reconcile(file, new_hash, last_amendment) ==
    IF ~file.delims THEN [error |-> "ValueError", text |-> file]
    ELSE [error |-> "none",
          text |-> [delims |-> TRUE, crlf |-> FALSE,
                    lines |-> upsert_amendments_hash_lines(file.lines, new_hash,
                                                           last_amendment),
                    body |-> universal_newlines(file.body)]]

(***************************************************************************)
(* The hash chain as each of the three scripts computes it over one        *)
(* workspace.  A workspace maps a path to the stripped body of the file,   *)
(* or to "none".  <accepted> stands for the accepted suffix as the gate    *)
(* and verify_kernel_hash spell it, <accepted_dbl> for the one             *)
(* sync_article_hash spells.                                               *)
(***************************************************************************)
TopFounding == ".constitution/FOUNDING.<accepted>"
AmendmentsFounding == ".constitution/amendments/.founding.<accepted>"
StoredFounding == ".constitution/amendments/.founding.<accepted_dbl>"
EarlyAmendment == ".constitution/amendments/-a0.<accepted>"
PlainAmendment == ".constitution/amendments/a0.<accepted>"
StoredAmendment == ".constitution/amendments/a0.<accepted_dbl>"
\* The accepted files of .constitution/amendments
AmendmentsDirPaths == {EarlyAmendment, AmendmentsFounding, PlainAmendment}
StoredDirPaths == {StoredFounding, StoredAmendment}
WorkspacePaths == AmendmentsDirPaths \cup StoredDirPaths \cup {TopFounding}
Workspaces == [WorkspacePaths -> {"none", "A", "B"}]

\* sorted() on paths of one directory: "-" sorts before ".", which sorts
\* before a letter or digit; U+00E2 sorts before U+2705
PathRank(path) ==
    CASE path = EarlyAmendment -> 0
      [] path = StoredFounding -> 1
      [] path = AmendmentsFounding -> 2
      [] path = StoredAmendment -> 3
      [] path = PlainAmendment -> 4
RECURSIVE sorted_paths(_)
sorted_paths(S) ==
    IF S = {} THEN <<>>
    ELSE LET m == CHOOSE x \in S : \A y \in S : PathRank(x) <= PathRank(y)
         IN <<m>> \o sorted_paths(S \ {m})

\* FILE:<relative path>, the stripped body, the separator
digest_feed(ws, paths) == [i \in 1..Len(paths) |-> <<paths[i], ws[paths[i]]>>]

\* hook_pre_tool_use.discover_founding: .constitution/FOUNDING.<suffix>
gate_founding_of(ws) ==
    IF ws[TopFounding] # "none" THEN <<TopFounding>> ELSE <<>>
\* hook_pre_tool_use.list_accepted_amendments: every accepted file of
\* amendments/
gate_accepted_of(ws) ==
    sorted_paths({path \in AmendmentsDirPaths : ws[path] # "none"})
\* hook_pre_tool_use.compute_amendments_hash
gate_chain_of(ws) ==
    <<"sha256", digest_feed(ws, gate_founding_of(ws) \o gate_accepted_of(ws))>>

\* sync_article_hash.discover_founding: amendments/.founding.<suffix>, the
\* suffix as this script spells it
sync_founding_of(ws) ==
    IF ws[StoredFounding] # "none" THEN <<StoredFounding>> ELSE <<>>
\* sync_article_hash.list_accepted_amendments: the files of amendments/
\* with the accepted suffix as this script spells it whose name does not
\* start with ".founding"
sync_accepted_of(ws) ==
    sorted_paths({path \in StoredDirPaths :
                     ws[path] # "none" /\ path # StoredFounding})
\* sync_article_hash.compute_amendments_hash
sync_chain_of(ws) ==
    <<"sha256", digest_feed(ws, sync_founding_of(ws) \o sync_accepted_of(ws))>>

\* verify_kernel_hash.discover_founding
verify_founding_of(ws) ==
    IF ws[AmendmentsFounding] # "none" THEN <<AmendmentsFounding>> ELSE <<>>
\* verify_kernel_hash.list_accepted_amendments
verify_accepted_of(ws) ==
    sorted_paths({path \in AmendmentsDirPaths :
                     ws[path] # "none" /\ path # AmendmentsFounding})
\* verify_kernel_hash.compute_amendments_hash
verify_chain_of(ws) ==
    <<"sha256", digest_feed(ws, verify_founding_of(ws) \o verify_accepted_of(ws))>>

\* A law file: the suffix of its name and the fingerprint in its header
Law(suf, hash) == [suffix |-> suf, amendments_hash |-> hash]
\* sync_article_hash.main: discover_law finds a law under a suffix as this
\* script spells it, or raises; the law found is given the chain and the
\* active suffix of this script
reconciled_law(ws, lw) ==
    IF lw.suffix \notin {"active_dbl", "resolving_dbl", "corrupted_dbl"}
    THEN [error |-> "FileNotFoundError", law |-> lw]
    ELSE [error |-> "none", law |-> Law("active_dbl", sync_chain_of(ws))]
\* hook_pre_tool_use.mark_law_stale_if_drift: an active law, under the
\* suffix as the gate spells it, whose fingerprint is not the chain
\* becomes resolving
drift_checked_law(ws, lw) ==
    IF lw.suffix = "active" /\ lw.amendments_hash # gate_chain_of(ws)
    THEN [lw EXCEPT !.suffix = "resolving"]
    ELSE lw
\* verify_kernel_hash.main, lines 109-174, on a law with a header
verify_result(ws, lw) ==
    IF lw.suffix \notin {"active", "resolving", "corrupted"} THEN "FAIL"
    ELSE IF lw.suffix = "active" /\ lw.amendments_hash = verify_chain_of(ws)
    THEN "PASS" ELSE "FAIL"

(***************************************************************************)
(* constitutional_paths.py on the text of a file name.  A name is a        *)
(* sequence of characters: the four members of VALID_EMOJIS, each taken   *)
(* as one character, the blank, and "x" for any other character.           *)
(***************************************************************************)
MaxNameLen == 3

NameChars == VALID_EMOJIS \cup {" ", "x"}
NameTexts == SeqsUpTo(NameChars, MaxNameLen)

\* path.name.startswith(emoji + " ")
startswith_emoji(name, emoji) == Len(name) >= 2 /\ name[1] = emoji /\ name[2] = " "

\* parse_state_emoji, lines 28-33: the emoji, or None
parse_state_emoji_of(name) ==
    IF \E emoji \in VALID_EMOJIS : startswith_emoji(name, emoji)
    THEN CHOOSE emoji \in VALID_EMOJIS : startswith_emoji(name, emoji)
    ELSE "None"

\* Variant: a leading emoji is stripped with or without the blank after it
base_name_any_emoji(name) ==
    IF \E emoji \in VALID_EMOJIS : startswith_emoji(name, emoji)
    THEN SubSeq(name, 3, Len(name))
    ELSE IF name # <<>> /\ name[1] \in VALID_EMOJIS THEN Tail(name)
    ELSE name

\* base_name, lines 36-42
base_name(name) ==
    IF \E emoji \in VALID_EMOJIS : startswith_emoji(name, emoji)
    THEN SubSeq(name, 3, Len(name))
    ELSE name

\* make_name, lines 45-47
make_name(emoji, base) == <<emoji, " ">> \o base

\* swap_state, lines 50-52, on the name of the path
swap_state_of(name, new_emoji) == make_name(new_emoji, base_name(name))

\* is_constitutional_file, lines 60-62
is_constitutional_file(name) == parse_state_emoji_of(name) # "None"

(***************************************************************************)
(* hook_before_shell_execution.py (the shell-command gate).  A command is  *)
(* the sequence of its shlex tokens.  Path tokens stand for                *)
(*   AccSuf    .constitution/amendments/<T1>.<accepted>                    *)
(*   AccPre    .constitution/amendments/<accepted> <T1>                    *)
(*   Plain     .constitution/amendments/<T1>                               *)
(*   DraftT1   .constitution/amendments/<draft> <T1>                       *)
(*   DraftT2   .constitution/amendments/<draft> <T2>                       *)
(*   Outside   notes/<T1>                                                  *)
(*   Glob      .constitution/*/<T1>.<accepted>, which the shell expands to *)
(*             the path AccSuf                                             *)
(*   Unrelated docs/LAWYERS.md                                             *)
(***************************************************************************)
MaxCmdLen == 4

AccSuf == "amendments/T1.accepted"
AccPre == "amendments/accepted T1"
Plain == "amendments/T1"
DraftT1 == "amendments/draft T1"
DraftT2 == "amendments/draft T2"
Outside == "notes/T1"
Glob == ".constitution/*/T1.accepted"
Unrelated == "docs/LAWYERS.md"
Script == "promote_article.py"
PathTokens == {AccSuf, AccPre, Plain, DraftT1, DraftT2, Outside, Glob, Unrelated}
ShellTokens == {"cat", "rm", "mv", "python3", ";", ">", Script} \cup PathTokens
Commands == SeqsUpTo(ShellTokens, MaxCmdLen)

READ_ONLY_BINARIES == {"ls", "rg", "grep", "cat", "head", "tail", "wc", "stat"}
MutatingVerbs == {"rm", "mv", "cp", "touch", "sed", "perl", "tee", "truncate", "dd", "ln",
                  "chmod", "chown", "git"}
Interpreters == {"python", "python3", "uv", "uvx"}

\* mentions_constitutional_files: the command text contains
\* .constitution/amendments, .founding or LAW
InAmendmentsDir == {AccSuf, AccPre, Plain, DraftT1, DraftT2}
mentions_constitutional_files(command) ==
    \E i \in 1..Len(command) : command[i] \in InAmendmentsDir \cup {Unrelated}

\* is_read_only_command: no redirection or pipe character, and the first
\* token names a read-only binary
is_read_only_command(command) ==
    /\ \A i \in 1..Len(command) : command[i] # ">"
    /\ command = <<>> \/ command[1] \in READ_ONLY_BINARIES

\* is_promotion_script_command
is_promotion_script_command(command) ==
    /\ Len(command) >= 2
    /\ command[1] \in Interpreters
    /\ \E i \in 2..Len(command) : command[i] = Script

\* parse_amendment_status: <<timestamp, state>> of a name that matches
\* AMENDMENT_STATUS_PATTERN, else <<>>
parse_amendment_status(t) ==
    CASE t = Plain -> <<"T1", "">>
      [] t = Outside -> <<"T1", "">>
      [] t = DraftT1 -> <<"T1", "draft">>
      [] t = DraftT2 -> <<"T2", "draft">>
      [] t = AccPre -> <<"T1", "accepted">>
      [] OTHER -> <<>>

\* Variant: any change of decoration on the same timestamp is a status-only
\* rename
rename_allowed_any_state(src_state, dst_state) == TRUE

\* is_status_only_amendment_rename, line 122
rename_allowed(src_state, dst_state) == src_state = "" /\ dst_state = "draft"

\* is_status_only_amendment_rename
is_status_only_amendment_rename(command) ==
    /\ Len(command) = 3
    /\ command[1] = "mv"
    /\ command[2] \in InAmendmentsDir /\ command[3] \in InAmendmentsDir
    /\ LET src_meta == parse_amendment_status(command[2])
           dst_meta == parse_amendment_status(command[3]) IN
       /\ src_meta # <<>> /\ dst_meta # <<>>
       /\ src_meta[1] = dst_meta[1]
       /\ rename_allowed(src_meta[2], dst_meta[2])

\* MUTATING_TOKEN_PATTERN.search(command)
mutating_token(command) == \E i \in 1..Len(command) : command[i] \in MutatingVerbs

\* main: the permission printed
shell_gate(command) ==
    IF ~mentions_constitutional_files(command) THEN "allow"
    ELSE IF is_read_only_command(command) THEN "allow"
    ELSE IF is_promotion_script_command(command) THEN "allow"
    ELSE IF is_status_only_amendment_rename(command) THEN "allow"
    ELSE IF mutating_token(command) \/ ~is_read_only_command(command) THEN "deny"
    ELSE "allow"

(***************************************************************************)
(* A run of hook_before_shell_execution.main, lines 126-161: the decision  *)
(* on the command is printed; no file is read or written                   *)
(***************************************************************************)
ShellHook(w, command) ==
    /\ CanStart(w)
    /\ pre' = Snapshot
    /\ FinishAt(w, "shell_gate", shell_gate(command), NoName, NoName)
    /\ UNCHANGED <<amend, law, now, seq, call, runtime, gate, allowed, stamped, delegated>>

(***************************************************************************)
(* hook_pre_tool_use.py: the direct-write gate.  A request names target    *)
(* paths (collect_paths), carries the identity of the invocation and a     *)
(* payload text.  The gate decides on json.dumps of the payload, in which  *)
(* a double quote is preceded by a backslash and a line ends in backslash  *)
(* n.  collect_amendment_paths_from_text adds names read from that text,   *)
(* whose decoration json.dumps has escaped to \uXXXX: no classifier below  *)
(* recognises them, so they are left out of the targets.                   *)
(***************************************************************************)
MaxTargets == 2
Identities == {"c1", "c2"}
NoIdentity == ""

VALID_SUFFIXES == {"accepted", "resolving", "draft", "corrupted"}

AmendmentPath(n) == [dir |-> "amendments", name |-> n]
\* LAW<suffix> of the law state s: the active law carries the suffix that
\* marks an accepted amendment
LawPath(s) ==
    [dir |-> "constitution",
     name |-> Name("none", "LAW", IF s = "active" THEN "accepted" ELSE s)]
FoundingPath(s) == [dir |-> "constitution", name |-> Name("none", "FOUNDING", s)]
OtherPath(n) == [dir |-> "elsewhere", name |-> n]

\* Lines of a payload text
Delim == <<"---">>
StatusDraft == <<"status:", "draft">>
StatusAccepted == <<"status:", "accepted">>
StatusAcceptedSQ == <<"status:", "'", "accepted", "'">>
StatusAcceptedDQ == <<"status:", "\"", "accepted", "\"">>
Title == <<"title: x">>
PayloadTexts ==
    {<<>>, <<Title>>,
     <<Delim, StatusDraft, Delim>>,
     <<Delim, StatusAccepted, Delim>>,
     <<Delim, StatusAcceptedSQ, Delim>>,
     <<Delim, StatusAcceptedDQ, Delim>>,
     <<Delim, Title, Delim, StatusDraft, Delim>>}

\* json.dumps of one line: a double quote is escaped, the newline becomes
\* backslash n
RECURSIVE dumps_line(_)
dumps_line(line) ==
    IF line = <<>> THEN <<"\\n">>
    ELSE (IF Head(line) = "\"" THEN <<"\\", "\"">> ELSE <<Head(line)>>)
         \o dumps_line(Tail(line))

RECURSIVE json_dumps(_)
json_dumps(text) ==
    IF text = <<>> THEN <<>> ELSE dumps_line(Head(text)) \o json_dumps(Tail(text))

\* contains_status_accepted_update: status\s*:\s*["']?accepted["']?
contains_status_accepted_update(text) ==
    LET d == json_dumps(text) IN
    \E i \in 1..Len(d) :
       /\ d[i] = "status:"
       /\ \/ i + 1 <= Len(d) /\ d[i + 1] = "accepted"
          \/ i + 2 <= Len(d) /\ d[i + 1] \in {"\"", "'"} /\ d[i + 2] = "accepted"

\* contains_valid_draft_frontmatter: a line ---, later a line status: draft,
\* later a line ---, each ended by an escaped newline
contains_valid_draft_frontmatter(text) ==
    LET d == json_dumps(text) IN
    \E i, j, k \in 1..Len(d) :
       /\ i + 1 < j /\ j + 2 < k /\ k + 1 <= Len(d)
       /\ d[i] = "---" /\ d[i + 1] = "\\n"
       /\ d[j - 1] = "\\n" /\ d[j] = "status:" /\ d[j + 1] = "draft" /\ d[j + 2] = "\\n"
       /\ d[k - 1] = "\\n" /\ d[k] = "---" /\ d[k + 1] = "\\n"

is_amendment_file(p) == p.dir = "amendments" /\ suffix(p.name) \in VALID_SUFFIXES
is_founding_document(p) ==
    /\ p.dir = "constitution" /\ p.name.pre = "none" /\ p.name.base = "FOUNDING"
    /\ suffix(p.name) \in VALID_SUFFIXES
is_law_file(p) ==
    /\ p.dir = "constitution" /\ p.name.pre = "none" /\ p.name.base = "LAW"
    /\ suffix(p.name) \in VALID_SUFFIXES

amendment_state(p) ==
    IF suffix(p.name) = "accepted" THEN "accepted"
    ELSE IF suffix(p.name) = "draft" THEN "draft"
    ELSE "pending"

\* .constitution/.runtime.json: absent, not JSON, or the token ledger with
\* its authorized map (identity, token) and its list of pending tokens
NoLedger == [kind |-> "missing", authorized |-> {}, pending |-> <<>>]
Garbled == [kind |-> "garbled", authorized |-> {}, pending |-> <<>>]
Ledger(a, p) == [kind |-> "json", authorized |-> a, pending |-> p]
Ledgers == {NoLedger, Garbled, Ledger({}, <<"t1">>), Ledger({<<"c1", "t0">>}, <<>>)}

\* Position of a gate invocation per identity
GateIdle == [pc |-> "idle", runtime |-> NoLedger]
NoGate ==
    /\ runtime = [file |-> NoLedger, tmp |-> NoLedger]
    /\ gate = [c \in Identities |-> GateIdle]
    /\ allowed = {}

\* main, line 307: conversation_id in authorized
is_authorized(id, ledger) == \E e \in ledger.authorized : e[1] = id

\* main, line 312: pending_tokens and conversation_id
can_claim(id, ledger) == ledger.pending # <<>> /\ id # NoIdentity

\* main, lines 313-316
claim(id, ledger) ==
    [ledger EXCEPT !.pending = Tail(@),
                   !.authorized = @ \cup {<<id, Head(ledger.pending)>>}]

\* main, lines 281-332: the law guard on a ledger already read
law_guard(id, ledger) ==
    IF ledger.kind = "missing" THEN "deny"
    ELSE IF ledger.kind = "garbled" THEN "deny"
    ELSE IF id # NoIdentity /\ is_authorized(id, ledger) THEN "allow"
    ELSE IF can_claim(id, ledger) THEN "allow"
    ELSE "deny"

\* main, lines 263-279: the founding guard; founding is the state found by
\* discover_founding under .constitution/
founding_guard(founding) == IF founding = "founding" THEN "deny" ELSE "allow"

\* main, lines 357-371: a new record must carry the draft suffix and the
\* payload must hold a draft header
new_record_ok(targets, text) ==
    amendment_state(targets[1]) = "draft" /\ contains_valid_draft_frontmatter(text)

\* main, lines 334-371: the amendment guard
amendment_guard(targets, text, am) ==
    LET amendment_paths == SelectSeq(targets, is_amendment_file)
        existing == {i \in 1..Len(amendment_paths) : am[amendment_paths[i].name] # NoFile}
        states == {amendment_state(amendment_paths[i]) : i \in existing}
    IN IF amendment_paths = <<>> THEN "allow"
       ELSE IF existing # {}
       THEN IF states = {"draft"}
            THEN IF contains_status_accepted_update(text) THEN "deny" ELSE "allow"
            ELSE "deny"
       ELSE IF new_record_ok(amendment_paths, text) THEN "allow" ELSE "deny"

\* main: the decision printed
pre_tool_use(request, ledger, am) ==
    IF \E i \in 1..Len(request.targets) : is_founding_document(request.targets[i])
    THEN founding_guard(request.founding)
    ELSE IF \E i \in 1..Len(request.targets) : is_law_file(request.targets[i])
    THEN law_guard(request.id, ledger)
    ELSE amendment_guard(request.targets, request.text, am)

\* The request reaches the law guard
reaches_law_guard(request) ==
    /\ \A i \in 1..Len(request.targets) : ~is_founding_document(request.targets[i])
    /\ \E i \in 1..Len(request.targets) : is_law_file(request.targets[i])

\* One invocation of the gate that runs alone.  Writing the claimed ledger
\* may fail with OSError, which main ignores.
DirectWriteGate ==
    /\ call.fn = "request"
    /\ LET request == call.res
           decision == pre_tool_use(request, runtime.file, amend)
           claims == /\ reaches_law_guard(request)
                     /\ runtime.file.kind = "json"
                     /\ ~is_authorized(request.id, runtime.file)
                     /\ can_claim(request.id, runtime.file)
       IN /\ call' = [fn |-> "pre_tool_use",
                      arg |-> [request |-> request, ledger |-> runtime.file],
                      res |-> decision]
          /\ \E ok \in BOOLEAN :
                runtime' = IF claims /\ ok
                           THEN [runtime EXCEPT !.file = claim(request.id, @)]
                           ELSE runtime
          /\ allowed' = IF reaches_law_guard(request) /\ decision = "allow"
                        THEN allowed \cup {request.id} ELSE allowed
    /\ UNCHANGED <<amend, law, now, pc, loc, out, pre, seq, stamped, delegated, gate>>

\* Concurrent invocations that target the law, one per identity.
\* main, lines 284-316: read the ledger and decide
GateRead(c) ==
    /\ gate[c].pc = "idle"
    /\ LET ledger == runtime.file IN
       IF law_guard(c, ledger) = "deny"
       THEN UNCHANGED <<gate, allowed>>
       ELSE IF is_authorized(c, ledger)
       THEN allowed' = allowed \cup {c} /\ UNCHANGED gate
       ELSE /\ gate' = [gate EXCEPT ![c] = [pc |-> "claim", runtime |-> claim(c, ledger)]]
            /\ UNCHANGED allowed
    /\ UNCHANGED <<amend, law, now, pc, loc, out, pre, seq, stamped, delegated, call,
                   runtime>>

\* main, lines 317-321 and 323-326: write the claimed ledger to .runtime.tmp;
\* on OSError allow at once
GateWriteTmp(c) ==
    /\ gate[c].pc = "claim"
    /\ \E ok \in BOOLEAN :
          IF ok
          THEN /\ runtime' = [runtime EXCEPT !.tmp = gate[c].runtime]
               /\ gate' = [gate EXCEPT ![c].pc = "rename"]
               /\ UNCHANGED allowed
          ELSE /\ gate' = [gate EXCEPT ![c] = GateIdle]
               /\ allowed' = allowed \cup {c}
               /\ UNCHANGED runtime
    /\ UNCHANGED <<amend, law, now, pc, loc, out, pre, seq, stamped, delegated, call>>

\* main, lines 322-326: rename .runtime.tmp over .runtime.json (OSError when
\* another invocation has renamed it away), then allow
GateRename(c) ==
    /\ gate[c].pc = "rename"
    /\ runtime' = IF runtime.tmp = NoLedger THEN runtime
                  ELSE [file |-> runtime.tmp, tmp |-> NoLedger]
    /\ gate' = [gate EXCEPT ![c] = GateIdle]
    /\ allowed' = allowed \cup {c}
    /\ UNCHANGED <<amend, law, now, pc, loc, out, pre, seq, stamped, delegated, call>>

(***************************************************************************)
(* verify_kernel_hash.py run on its own                                    *)
(***************************************************************************)
\* read_frontmatter(law_path).get("amendments_hash"): None when the text
\* has no header delimiters or no such field
read_frontmatter_hash(text) == IF text.fm THEN text.amendments_hash ELSE Absent

\* Variant: every active law passes
verify_report_active_passes(am, lw) ==
    IF discover_law(lw) = "active"
    THEN [result |-> "PASS", exit |-> 0, code |-> "none"]
    ELSE [result |-> "FAIL", exit |-> 1, code |-> "LAW_NOT_FOUND"]

\* main: the RESULT line, the exit status and the code of the DIAGNOSTIC
\* line
verify_report(am, lw) ==
    LET state == discover_law(lw) IN
    IF state = "none" THEN [result |-> "FAIL", exit |-> 1, code |-> "LAW_NOT_FOUND"]
    ELSE IF state = "corrupted" THEN [result |-> "FAIL", exit |-> 1, code |-> "LAW_CORRUPTED"]
    ELSE IF state = "resolving" THEN [result |-> "FAIL", exit |-> 1, code |-> "LAW_STALE"]
    ELSE IF ~lw["active"].decodable
    THEN [result |-> "FAIL", exit |-> 1, code |-> "LAW_CORRUPTED"]
    ELSE IF read_frontmatter_hash(lw["active"]) = compute_amendments_hash(am)
    THEN [result |-> "PASS", exit |-> 0, code |-> "none"]
    ELSE [result |-> "FAIL", exit |-> 1, code |-> "HASH_MISMATCH"]

\* main, lines 146-155: read_frontmatter raised on the active law, which is
\* renamed to LAW.<corrupted>
verify_renames(lw) == discover_law(lw) = "active" /\ ~lw["active"].decodable

\* One run of the verifier
Verify(w) ==
    /\ CanStart(w)
    /\ pre' = Snapshot
    /\ call' = [fn |-> "verify_kernel_hash", arg |-> w, res |-> verify_report(amend, law)]
    /\ law' = IF verify_renames(law)
              THEN [law EXCEPT !["corrupted"] = law["active"], !["active"] = NoFile]
              ELSE law
    /\ FinishAt(w, "verify", "exit", NoName, NoName)
    /\ UNCHANGED <<amend, now, seq, runtime, gate, allowed, stamped, delegated>>

(***************************************************************************)
(* Initial states and specifications                                       *)
(***************************************************************************)
BodyA == [core |-> "A", pad |-> FALSE]
BodyB == [core |-> "B", pad |-> FALSE]

\* The names a draft of amendment a1 can have: suffix alphabet, prefix
\* alphabet, or both decorations at once
DraftNames == {Name("none", "a1", "draft"), Name("draft", "a1", "none"),
               Name("draft", "a1", "draft")}
AcceptedA0 == Name("none", "a0", "accepted")
AcceptedFounding == Name("none", Founding, "accepted")

FreshDraft == AmendFile(TRUE, "draft", Absent, NoLease, FALSE, BodyA)
PlainDraft == AmendFile(FALSE, "absent", Absent, NoLease, FALSE, BodyA)
Accepted(b) == AmendFile(TRUE, "absent", body_hash(b), NoLease, FALSE, b)

InitAmend(d, text, founding) ==
    [n \in AllNames |->
        IF n = d THEN text
        ELSE IF n = AcceptedA0 THEN Accepted(BodyB)
        ELSE IF founding /\ n = AcceptedFounding THEN Accepted(BodyA)
        ELSE NoFile]

ReconciledLaw(am, fm) ==
    IF fm THEN LawFile(TRUE, compute_amendments_hash(am), with_suffix(AcceptedA0, "none"),
                       "absent", Absent, NoName, NoLease)
    ELSE LawFile(FALSE, Absent, NoName, "absent", Absent, NoName, NoLease)

LawDir(am, s, fm) ==
    [x \in LawSuffixes |-> IF x = s THEN ReconciledLaw(am, fm) ELSE NoFile]

InitCommon ==
    /\ now = 0
    /\ pc = [w \in Workers |-> "idle"]
    /\ loc = [w \in Workers |-> NoLoc]
    /\ out = [w \in Workers |-> NoOut]
    /\ pre = NoSnap
    /\ delegated = {}
    /\ call = NoCall
    /\ NoGate
    /\ stamped = {<<RecordId(n), amend[n].apply_ok_at>> :
                     n \in {m \in AllNames : amend[m] # NoFile
                                /\ amend[m].apply_ok_at \notin {Absent, Pending}}}

\* A draft in review whose header carries the digest of its body
ReviewedDraft == AmendFile(TRUE, "review", body_hash(BodyA), NoLease, FALSE, BodyA)

\* An active law last reconciled before the accepted amendment a0 arrived
\* in amendments/ (checked out or copied in, not promoted here)
DriftedLaw(am) == LawDir([am EXCEPT ![AcceptedA0] = NoFile], "active", TRUE)
\* The same law waiting for reconciliation, its file carrying the resolving
\* suffix as sync_article_hash spells it
WaitingLaw(am) == LawDir([am EXCEPT ![AcceptedA0] = NoFile], "resolving_dbl", TRUE)

\* Concurrent workers on one draft, fresh or evaluated and in review
InitDraft ==
    /\ seq = FALSE
    /\ \E text \in {FreshDraft, ReviewedDraft} :
          amend = InitAmend(Name("draft", "a1", "draft"), text, FALSE)
    /\ law = LawDir(amend, "active", TRUE)
    /\ InitCommon

\* Concurrent workers on a draft ready for promotion and a law that is
\* active and reconciled, or whose file carries the resolving suffix as
\* sync_article_hash spells it
InitLaw ==
    /\ seq = FALSE
    /\ amend = InitAmend(Name("none", "a1", "draft"), ReviewedDraft, FALSE)
    /\ law \in {LawDir(amend, "active", TRUE), WaitingLaw(amend)}
    /\ InitCommon

\* One run at a time: a draft that is fresh, without header or ready for
\* promotion, an accepted founding record, and a law that is active,
\* corrupted, absent or behind the accepted set, or whose file carries the
\* resolving or the corrupted suffix as sync_article_hash spells it
InitSeq ==
    /\ seq = TRUE
    /\ \E d \in DraftNames, text \in {FreshDraft, PlainDraft, ReviewedDraft},
          founding \in BOOLEAN :
          amend = InitAmend(d, text, founding)
    /\ \/ \E s \in {"active", "corrupted", "none", "corrupted_dbl"} :
             law = LawDir(amend, s, TRUE)
       \/ law = DriftedLaw(amend)
       \/ law = WaitingLaw(amend)
    /\ InitCommon

\* A draft in review whose evaluation is wanted
AwaitingDraft == AmendFile(TRUE, "review", Pending, NoLease, FALSE, BodyA)

\* The turn-boundary hook with a draft that needs evaluation or not, and a
\* law that is reconciled, waits for reconciliation, is corrupted, absent
\* or behind the accepted set
InitStop ==
    /\ \E text \in {AwaitingDraft, ReviewedDraft} :
          amend = InitAmend(Name("none", "a1", "draft"), text, FALSE)
    /\ \/ \E s \in {"active", "resolving", "corrupted", "none"} :
             law = LawDir(amend, s, TRUE)
       \/ law = DriftedLaw(amend)
    /\ InitCommon

InitLeaseSeq == seq = TRUE /\ InitStop
InitLease == seq = FALSE /\ InitStop

\* No files and no run: the state around a function application
InitIdle ==
    /\ seq = TRUE
    /\ amend = [n \in AllNames |-> NoFile]
    /\ law = [x \in LawSuffixes |-> NoFile]
    /\ now = 0
    /\ pc = [w \in Workers |-> "idle"]
    /\ loc = [w \in Workers |-> NoLoc]
    /\ out = [w \in Workers |-> NoOut]
    /\ pre = NoSnap
    /\ delegated = {}
    /\ stamped = {}
    /\ NoGate

Apply(fn, arg, res) ==
    /\ call' = [fn |-> fn, arg |-> arg, res |-> res]
    /\ UNCHANGED <<amend, law, now, pc, loc, out, pre, seq, stamped, delegated,
                   runtime, gate, allowed>>

\* hook_subagent_stop.main releases the lease of a file, and releases the
\* lease of the released file once more
InitRelease == InitIdle /\ \E file \in DiskTexts : call = [fn |-> "file", res |-> file]
Release == call.fn = "file" /\ Apply("release", call.res, release(call.res))
ReleaseAgain == call.fn = "release" /\ Apply("release_again", call.res, release(call.res))
NextRelease == Release \/ ReleaseAgain
SpecRelease == InitRelease /\ [][NextRelease]_vars

\* The shell-command gate decides on a command
InitShell == InitIdle /\ \E command \in Commands : call = [fn |-> "command", res |-> command]
ShellGate == call.fn = "command" /\ Apply("shell_gate", call.res, shell_gate(call.res))
NextShell == ShellGate
SpecShell == InitShell /\ [][NextShell]_vars

\* The hash chain of a directory before and after a change of the text of
\* the accepted record a0, of the presence of the accepted record a1 and of
\* a draft, and of the order of enumeration
FeedBodies == SeqsUpTo(BodyTokens, MaxFeedBody)
FeedHeaders == {<<"status", "LF", "lease">>, <<"lease", "LF", "status">>}
FeedText(dl, h, b) == [delims |-> dl, header |-> h, body |-> b]
FeedNames == {AcceptedFounding, AcceptedA0, Name("none", "a1", "accepted"),
              Name("none", "a1", "draft")}
FixedText == [delims |-> TRUE, header |-> <<"status">>, body |-> <<"x">>]
Directory(text, accepted1, draft1) ==
    [n \in FeedNames |->
        IF n = AcceptedA0 THEN text
        ELSE IF n = AcceptedFounding THEN FixedText
        ELSE IF n = Name("none", "a1", "accepted") /\ accepted1 THEN FixedText
        ELSE IF n = Name("none", "a1", "draft") /\ draft1 THEN FixedText
        ELSE NoFile]
RECURSIVE reversed(_)
reversed(t) == IF t = <<>> THEN <<>> ELSE Append(reversed(Tail(t)), Head(t))
Enumeration(dir, backwards) ==
    LET present == sorted({n \in FeedNames : dir[n] # NoFile}) IN
    IF backwards THEN reversed(present) ELSE present
InitChain ==
    /\ InitIdle
    /\ \E dl \in BOOLEAN, h \in FeedHeaders, b1, b2 \in FeedBodies,
          a1, a2, d2, backwards \in BOOLEAN :
          LET before == Directory(FeedText(dl, <<"status", "LF", "lease">>, b1), a1, FALSE)
              after == Directory(FeedText(dl, h, b2), a2, d2)
          IN call = [fn |-> "directories",
                     res |-> [before |-> [dir |-> before,
                                          order |-> Enumeration(before, FALSE)],
                              after |-> [dir |-> after,
                                         order |-> Enumeration(after, backwards)]]]
Chain ==
    /\ call.fn = "directories"
    /\ Apply("compute_amendments_hash", call.res,
             [before |-> amendments_digest(call.res.before.dir, call.res.before.order),
              after |-> amendments_digest(call.res.after.dir, call.res.after.order)])
NextChain == Chain
SpecChain == InitChain /\ [][NextChain]_vars

\* A header rewrite of the text of a draft
InitHeader ==
    /\ InitIdle
    /\ \E file \in MapTexts, op \in HeaderOps, given \in BOOLEAN :
          call = [fn |-> "text", res |-> [file |-> file, op |-> op, given |-> given]]
RewriteHeader ==
    /\ call.fn = "text"
    /\ Apply("rewrite_header", call.res,
             rewrite_header(call.res.file, call.res.op, call.res.given))
NextHeader == RewriteHeader
SpecHeader == InitHeader /\ [][NextHeader]_vars

\* The naming functions applied to a name and a state
InitName ==
    /\ InitIdle
    /\ \E name \in NameTexts, emoji \in VALID_EMOJIS :
          call = [fn |-> "name", res |-> [name |-> name, emoji |-> emoji]]
Decorate ==
    /\ call.fn = "name"
    /\ Apply("decorate", call.res,
             [made |-> make_name(call.res.emoji, call.res.name),
              base_of_made |-> base_name(make_name(call.res.emoji, call.res.name)),
              swapped |-> swap_state_of(call.res.name, call.res.emoji),
              base |-> base_name(call.res.name),
              state |-> parse_state_emoji_of(call.res.name),
              constitutional |-> is_constitutional_file(call.res.name)])
NextName == Decorate
SpecName == InitName /\ [][NextName]_vars

\* The direct-write gate decides on one request.  On disk: the accepted
\* amendment a0, the accepted founding record, the draft a1 and a reconciled
\* law, so that mark_law_stale_if_drift (main, line 257) finds no drift.
GateTargets ==
    {AmendmentPath(AcceptedA0), AmendmentPath(AcceptedFounding),
     AmendmentPath(Name("none", "a1", "draft")),
     AmendmentPath(Name("none", "a1", "accepted")),
     AmendmentPath(Name("none", "a0", "draft")),
     AmendmentPath(Name("accepted", "a0", "none")),
     LawPath("active"), LawPath("resolving"), LawPath("corrupted"),
     FoundingPath("draft"), OtherPath(AcceptedA0)}
Requests ==
    [targets : SeqsUpTo(GateTargets, MaxTargets) \ {<<>>},
     id : Identities \cup {NoIdentity},
     text : PayloadTexts,
     founding : {"none", "founding"}]
InitGate ==
    /\ seq = TRUE
    /\ amend = InitAmend(Name("none", "a1", "draft"), FreshDraft, TRUE)
    /\ \E s \in {"active", "resolving", "corrupted"} : law = LawDir(amend, s, TRUE)
    /\ now = 0
    /\ pc = [w \in Workers |-> "idle"]
    /\ loc = [w \in Workers |-> NoLoc]
    /\ out = [w \in Workers |-> NoOut]
    /\ pre = NoSnap
    /\ delegated = {}
    /\ stamped = {}
    /\ \E request \in Requests : call = [fn |-> "request", res |-> request]
    /\ \E ledger \in Ledgers : runtime = [file |-> ledger, tmp |-> NoLedger]
    /\ gate = [c \in Identities |-> GateIdle]
    /\ allowed = {}
NextGate == DirectWriteGate
SpecGate == InitGate /\ [][NextGate]_vars

\* Gate invocations of several identities interleave on a ledger that holds
\* pre-minted tokens and a resolving law
PendingLedgers == {Ledger({}, <<"t1">>), Ledger({}, <<"t1", "t2">>),
                   Ledger({<<"c1", "t0">>}, <<"t1">>)}
InitToken ==
    /\ seq = FALSE
    /\ amend = InitAmend(Name("none", "a1", "draft"), FreshDraft, TRUE)
    /\ law = LawDir(amend, "resolving", TRUE)
    /\ now = 0
    /\ pc = [w \in Workers |-> "idle"]
    /\ loc = [w \in Workers |-> NoLoc]
    /\ out = [w \in Workers |-> NoOut]
    /\ pre = NoSnap
    /\ delegated = {}
    /\ stamped = {}
    /\ call = NoCall
    /\ \E ledger \in PendingLedgers : runtime = [file |-> ledger, tmp |-> NoLedger]
    /\ gate = [c \in Identities |-> GateIdle]
    /\ allowed = {}
NextToken == \E c \in Identities : GateRead(c) \/ GateWriteTmp(c) \/ GateRename(c)
SpecToken == InitToken /\ [][NextToken]_vars

Promote(w) ==
    \/ \E n \in ArticleArgs : PromoteStart(w, n)
    \/ PromoteCheck(w)
    \/ PromoteRead(w)
    \/ PromoteWrite(w)
    \/ PromoteRename(w)
    \/ PromoteGhost(w)
    \/ MarkLawStaleRead(w)
    \/ MarkLawStaleWrite(w)
    \/ MarkLawStaleRename(w)

\* A run of apply_suitability_result.  No name passes the test of line 86
\* (parse_state_emoji returns a member of VALID_EMOJIS or None, never the
\* literal it is compared with), so SuitabilityRead and SuitabilityWrite
\* are never reached.
Suitability(w, results) ==
    \E n \in ArticleArgs, r \in results, q \in BOOLEAN :
        SuitabilityStart(w, n, r, q)

\* A run of hook_after_file_edit.  For the same reason is_draft_amendment
\* (line 59) is false of every name and AfterEditWrite is never reached.
AfterEdit(w) == \E n \in ArticleArgs : AfterEditStart(w, n)

Edit(bodies) ==
    \/ \E n \in ArticleArgs, b \in bodies : EditBody(n, b)
    \/ \E n \in ArticleArgs, st \in {"draft", "review"} : EditStatus(n, st)

Sync(w) ==
    \/ SyncStart(w)
    \/ SyncHash(w)
    \/ SyncRead(w)
    \/ SyncWrite(w)
    \/ SyncRename(w)

Drift(w) ==
    \/ DriftStart(w)
    \/ DriftHash(w)
    \/ DriftRead(w)
    \/ DriftWrite(w)
    \/ DriftRename(w)

Stop(w) ==
    \/ StopStart(w)
    \/ StopCheck(w)
    \/ StopAct(w)
    \/ WriteFieldRead(w)
    \/ WriteFieldTmp(w)
    \/ WriteFieldRename(w)

\* One run at a time, every operation
NextSeq ==
    \/ \E w \in Workers : Promote(w)
    \/ \E w \in Workers : Suitability(w, {"APPLY_OK", "NEEDS_INPUT"})
    \/ \E w \in Workers : AfterEdit(w)
    \/ Edit(Bodies)
    \/ \E w \in Workers : Sync(w)
    \/ \E w \in Workers : Drift(w)
    \/ \E w \in Workers : Return(w)

\* Concurrent authors, evaluators, promoters and turn-boundary hooks of a
\* draft
NextDraft ==
    \/ \E w \in Workers : Promote(w)
    \/ \E w \in Workers : Suitability(w, {"APPLY_OK"})
    \/ \E w \in Workers : Stop(w)
    \/ Edit({BodyA, BodyB})

\* Concurrent promotions, reconciliations and gate drift checks
NextLaw ==
    \/ \E w \in Workers : Promote(w)
    \/ \E w \in Workers : Sync(w)
    \/ \E w \in Workers : Drift(w)

\* The turn-boundary hook, one run at a time, while time passes
NextLeaseSeq ==
    \/ \E w \in Workers : Stop(w)
    \/ \E w \in Workers : Return(w)
    \/ Tick

\* Concurrent runs of the turn-boundary hook while time passes
NextLease ==
    \/ \E w \in Workers : Stop(w)
    \/ Tick

SpecSeq == InitSeq /\ [][NextSeq]_vars
SpecDraft == InitDraft /\ [][NextDraft]_vars
SpecLaw == InitLaw /\ [][NextLaw]_vars
SpecLeaseSeq == InitLeaseSeq /\ [][NextLeaseSeq]_vars
SpecLease == InitLease /\ [][NextLease]_vars

\* The verifier alone, between edits of drafts: a law that is reconciled,
\* without header delimiters, not UTF-8, behind the accepted set, resolving,
\* corrupted or absent
UndecodableLaw ==
    [LawFile(FALSE, Absent, NoName, "absent", Absent, NoName, NoLease)
        EXCEPT !.decodable = FALSE]
InitVerify ==
    /\ seq = TRUE
    /\ \E founding \in BOOLEAN :
          amend = InitAmend(Name("none", "a1", "draft"), FreshDraft, founding)
    /\ \/ \E s \in {"active", "resolving", "corrupted"}, fm \in BOOLEAN :
             law = LawDir(amend, s, fm)
       \/ law = LawDir(amend, "none", TRUE)
       \/ law = DriftedLaw(amend)
       \/ law = [x \in LawSuffixes |-> IF x = "active" THEN UndecodableLaw ELSE NoFile]
    /\ InitCommon
NextVerify ==
    \/ \E w \in Workers : Verify(w)
    \/ \E w \in Workers : Return(w)
    \/ Edit(Bodies)
SpecVerify == InitVerify /\ [][NextVerify]_vars


\* Promotions of a draft in review, one run at a time, one of which may die
\* between two steps
InitCrash ==
    /\ seq = TRUE
    /\ \E founding \in BOOLEAN :
          amend = InitAmend(Name("none", "a1", "draft"), ReviewedDraft, founding)
    /\ \E s \in {"active", "resolving", "none"} : law = LawDir(amend, s, TRUE)
    /\ InitCommon
NextCrash ==
    \/ \E w \in Workers : Promote(w)
    \/ \E w \in Workers : Crash(w)
    \/ \E w \in Workers : Return(w)
SpecCrash == InitCrash /\ [][NextCrash]_vars


\* Every header rewrite, one run at a time, each write seen step by step
InitTorn ==
    /\ seq = TRUE
    /\ \E text \in {AwaitingDraft, ReviewedDraft} :
          amend = InitAmend(Name("draft", "a1", "draft"), text, FALSE)
    /\ \/ \E s \in {"active", "resolving"} : law = LawDir(amend, s, TRUE)
       \/ law \in {DriftedLaw(amend), WaitingLaw(amend)}
    /\ InitCommon
NextTorn ==
    \/ \E w \in Workers : Promote(w)
    \/ \E w \in Workers : Suitability(w, {"APPLY_OK", "NEEDS_INPUT"})
    \/ \E w \in Workers : AfterEdit(w)
    \/ \E w \in Workers : Sync(w)
    \/ \E w \in Workers : Drift(w)
    \/ \E w \in Workers : Stop(w)
    \/ \E w \in Workers : OpenForWrite(w)
    \/ \E w \in Workers : Return(w)
SpecTorn == InitTorn /\ [][NextTorn]_vars


\* The two gates, one run at a time, between edits of the records, on a law
\* that is reconciled or behind the accepted set, with and without an
\* accepted founding record
GatedCommands == {<<"cat", AccSuf>>, <<"rm", AccSuf>>, <<"mv", Plain, DraftT1>>, <<"rm", Outside>>}
InitStale ==
    /\ seq = TRUE
    /\ \E founding \in BOOLEAN :
          amend = InitAmend(Name("none", "a1", "draft"), FreshDraft, founding)
    /\ \/ \E s \in {"active", "resolving", "none"} : law = LawDir(amend, s, TRUE)
       \/ law = DriftedLaw(amend)
    /\ InitCommon
NextStale ==
    \/ \E w \in Workers : Drift(w)
    \/ \E w \in Workers, command \in GatedCommands : ShellHook(w, command)
    \/ \E w \in Workers : Return(w)
    \/ Edit(Bodies)
SpecStale == InitStale /\ [][NextStale]_vars


\* Rejection.  Either the text of a draft is given a negative result, or
\* a draft, fresh or evaluated, goes through results, edits and promotions,
\* one run at a time.
InitReject ==
    \/ /\ InitIdle
       /\ \E file \in MapTexts, given \in BOOLEAN :
             call = [fn |-> "text",
                     res |-> [file |-> file, op |-> "NEEDS_INPUT", given |-> given]]
    \/ /\ seq = TRUE
       /\ \E text \in {FreshDraft, ReviewedDraft}, founding \in BOOLEAN :
             amend = InitAmend(Name("draft", "a1", "draft"), text, founding)
       /\ law = LawDir(amend, "active", TRUE)
       /\ InitCommon
NextReject ==
    \/ RewriteHeader
    \/ call = NoCall /\ \E w \in Workers : Suitability(w, {"APPLY_OK", "NEEDS_INPUT"})
    \/ call = NoCall /\ \E w \in Workers : Promote(w)
    \/ call = NoCall /\ \E w \in Workers : AfterEdit(w)
    \/ call = NoCall /\ Edit(Bodies)
    \/ call = NoCall /\ \E w \in Workers : Return(w)
SpecReject == InitReject /\ [][NextReject]_vars



\* Promotion of the founding record, one run at a time, between
\* reconciliations and gate drift checks: the founding record is in review
\* with a valid stamp, a pending one or no header, still a draft (under
\* the name promote_founding or the turn-boundary hook looks for), already
\* accepted, or absent; the law is active, resolving, absent, behind the
\* accepted set or waiting for reconciliation
InitFounding ==
    /\ seq = TRUE
    /\ \/ \E text \in {ReviewedDraft, AwaitingDraft, PlainDraft} :
             amend = InitAmend(FoundingReview, text, FALSE)
       \/ \E d \in {FoundingDraft, Name("none", Founding, "draft_dbl")} :
             amend = InitAmend(d, FreshDraft, FALSE)
       \/ \E founding \in BOOLEAN : amend = InitAmend(NoName, NoFile, founding)
    /\ \/ \E s \in {"active", "resolving", "none"} : law = LawDir(amend, s, TRUE)
       \/ law \in {DriftedLaw(amend), WaitingLaw(amend)}
    /\ InitCommon
PromoteFounding(w) ==
    \/ PromoteFoundingStart(w)
    \/ PromoteFoundingRead(w)
    \/ PromoteFoundingWrite(w)
    \/ PromoteFoundingRename(w)
NextFounding ==
    \/ \E w \in Workers : PromoteFounding(w)
    \/ \E w \in Workers : Sync(w)
    \/ \E w \in Workers : Drift(w)
    \/ \E w \in Workers : Return(w)
SpecFounding == InitFounding /\ [][NextFounding]_vars



\* Reconciliation of the text of a law, and once more on the text written
InitReconcile ==
    /\ InitIdle
    /\ \E file \in LawTexts, last \in LastNames :
          call = [fn |-> "law", res |-> [file |-> file, last |-> last]]
Reconcile ==
    /\ call.fn = "law"
    /\ Apply("reconcile", call.res, reconcile(call.res.file, "sha256", call.res.last))
ReconcileAgain ==
    /\ call.fn = "reconcile"
    /\ Apply("reconcile_again", [file |-> call.res.text, last |-> call.arg.last],
             reconcile(call.res.text, "sha256", call.arg.last))
NextReconcile == Reconcile \/ ReconcileAgain
SpecReconcile == InitReconcile /\ [][NextReconcile]_vars



\* The turn-boundary hook under fair scheduling.  No subagent ever acts on a
\* delegation: every lease that is written is abandoned by its holder, and
\* the guarded record keeps needing work.  Time passes, and every session
\* keeps reaching turn boundaries, where its hook runs to completion.
FairLease == WF_vars(Tick) /\ \A w \in Workers : WF_vars(Stop(w))
InitLeaseLive ==
    /\ seq = FALSE
    /\ \/ /\ amend = InitAmend(Name("none", "a1", "draft"), AwaitingDraft, FALSE)
          /\ law = LawDir(amend, "active", TRUE)
       \/ /\ amend = InitAmend(Name("none", "a1", "draft"), ReviewedDraft, FALSE)
          /\ law = LawDir(amend, "resolving", TRUE)
    /\ InitCommon
SpecLeaseLive == InitLeaseLive /\ [][NextLease]_vars /\ FairLease


\* Reconciliation of one workspace whose law waits for it, under either
\* spelling of the resolving suffix, followed with no file changed by a gate
\* invocation or by verification
InitAgree ==
    /\ InitIdle
    /\ \E ws \in Workspaces, suf \in {"resolving", "resolving_dbl"} :
          call = [fn |-> "workspace",
                  res |-> [ws |-> ws, law |-> Law(suf, Absent), error |-> "none"]]
AgreeReconcile ==
    /\ call.fn = "workspace"
    /\ Apply("sync_article_hash", call.res,
             [ws |-> call.res.ws] @@ reconciled_law(call.res.ws, call.res.law))
AgreeGate ==
    /\ call.fn = "sync_article_hash"
    /\ Apply("hook_pre_tool_use", call.res,
             [ws |-> call.res.ws,
              law |-> drift_checked_law(call.res.ws, call.res.law)])
AgreeVerify ==
    /\ call.fn = "sync_article_hash"
    /\ Apply("verify_kernel_hash", call.res,
             [ws |-> call.res.ws, law |-> call.res.law,
              report |-> verify_result(call.res.ws, call.res.law)])
NextAgree == AgreeReconcile \/ AgreeGate \/ AgreeVerify
SpecAgree == InitAgree /\ [][NextAgree]_vars


(***************************************************************************)
(* Properties                                                              *)
(***************************************************************************)
Done(w, op) == pc[w] = "done" /\ out[w].op = op
Errors == {"FileNotFoundError", "ValueError", "ValueError: only to draft amendments"}
Unchanged == amend = pre.amend /\ law = pre.law

\* The record promote_article was called on, as it was before the call
AcceptedBefore(w) == pre.amend[with_suffix(out[w].arg, "accepted")] # NoFile
ArticleBefore(w) == pre.amend[out[w].arg]
PromotableBefore(w) ==
    /\ ArticleBefore(w) # NoFile
    /\ suffix(out[w].arg) = "draft"
    /\ ArticleBefore(w).status = "review"
    /\ ArticleBefore(w).apply_ok_at = sha256(strip(ArticleBefore(w).body))

\* C1: a run of promote_article on a record whose accepted counterpart does
\* not exist succeeds iff the record (an existing draft-suffixed file) has
\* status review and apply_ok_at equal to the hash of its trimmed body;
\* otherwise it ends with a named error and amendments and law are as before.
C1_PromotionIffPrecondition ==
    \A w \in Workers :
        (Done(w, "promote") /\ ~AcceptedBefore(w)) =>
            /\ out[w].res = "ok" <=> PromotableBefore(w)
            /\ out[w].res # "ok" => (out[w].res \in Errors /\ Unchanged)

C1_Witness ==
    \E w \in Workers :
        /\ Done(w, "promote") /\ ~AcceptedBefore(w)
        /\ out[w].res = "ok"
        /\ amend[with_suffix(out[w].arg, "accepted")] # NoFile

\* C3: a run of promote_article on a record whose accepted file already
\* exists changes no file and reports success with the accepted path, the
\* same result a run that performs the promotion reports.
C3_RerunIsNoOp ==
    \A w \in Workers :
        Done(w, "promote") =>
            /\ AcceptedBefore(w) =>
                   (out[w].res = "ok" /\ Unchanged)
            /\ out[w].res = "ok" => out[w].path = with_suffix(out[w].arg, "accepted")

C3_Witness ==
    \E w \in Workers :
        /\ Done(w, "promote") /\ AcceptedBefore(w)
        /\ suffix(out[w].arg) = "draft" /\ out[w].arg.base = "a1"
        /\ out[w].res = "ok"


\* The law file the scripts find, and whether its stored fingerprint is the
\* hash chain of the accepted records now on disk
TheLaw == law[discover_law(law)]
ChainNow ==
    <<"sha256",
      (IF amend[AcceptedFounding] # NoFile
       THEN <<<<AcceptedFounding, strip(amend[AcceptedFounding].body)>>>> ELSE <<>>)
      \o Feed(amend, sorted({n \in AllNames : /\ amend[n] # NoFile
                                               /\ n.suf = "accepted"
                                               /\ n # AcceptedFounding}))>>
FingerprintMatches(text) == text.amendments_hash = ChainNow
LawIs(s) == law[s] # NoFile /\ \A x \in {"active", "resolving", "corrupted"} \ {s} : law[x] = NoFile

\* The law files with the decoration of the state st, in either spelling of
\* its suffix, and the law files of any state
LawsDecorated(st) == {x \in {st, st \o "_dbl"} : law[x] # NoFile}
LawFiles == LawsDecorated("active") \cup LawsDecorated("resolving") \cup LawsDecorated("corrupted")

C5_ReconciliationRestoresLaw ==
    \A w \in Workers :
        (Done(w, "sync") /\ out[w].res = "ok") =>
            /\ LawsDecorated("active") # {} /\ LawFiles = LawsDecorated("active")
            /\ \A x \in LawsDecorated("active") : FingerprintMatches(law[x])


AcceptedNames == {n \in AllNames : n.suf = "accepted" /\ amend[n] # NoFile}

\* C2: in every reachable state, under any interleaving of body edits,
\* APPLY_OK stamping and promotion, the trimmed body of every accepted
\* amendment is a body whose hash an APPLY_OK run stamped into apply_ok_at
\* of that record.
C2_AcceptedBodyWasApproved ==
    \A n \in AcceptedNames : <<RecordId(n), sha256(strip(amend[n].body))>> \in stamped

\* C7: once a record is decorated accepted, no step of any operation
\* removes it, renames it or changes its body.
C7_AcceptedImmutable ==
    [][\A n \in AcceptedNames : amend'[n] # NoFile /\ amend'[n].body = amend[n].body]_vars


\* C6: in every state where no promotion, reconciliation or gate drift
\* check is mid-execution, the law is decorated active iff its stored
\* fingerprint equals the hash chain recomputed over the accepted records.
C6_ActiveIffFingerprintMatches ==
    AllIdle =>
        \A x \in LawFiles : x \in LawsDecorated("active") <=> FingerprintMatches(law[x])

\* The record the turn-boundary hook locked (LAW.<resolving> when it found
\* no draft to evaluate) and its lease before and after the run
LockedBefore(w) ==
    IF out[w].arg = NoName THEN pre.law["resolving"] ELSE pre.amend[out[w].arg]
LockedAfter(w) ==
    IF out[w].arg = NoName THEN law["resolving"] ELSE amend[out[w].arg]
Attempt(w) ==
    Done(w, "stop") /\ out[w].res # "pass" /\ LockedBefore(w) # NoFile
Acquired(w) ==
    /\ out[w].res = "delegated"
    /\ LeaseOf(LockedAfter(w)) = now
    /\ \E d \in delegated \ pre.delegated :
          d[1] = w /\ d[3] = out[w].arg /\ d[4] = now

Acquirers(n) == {d[1] : d \in {e \in delegated : e[3] = n /\ e[2] # "codifier"}}
C9_ExactlyOneAcquires ==
    now < LOCK_TIMEOUT_SECONDS =>
        \A n \in AllNames : Cardinality(Acquirers(n)) <= 1

Reconciliations == {d \in delegated : d[2] = "codifier"}

\* C11: any two delegations of reconciliation work, to whichever workers,
\* are at least the lease timeout apart, whatever made verification fail.
C11_OneReconciliationPerWindow ==
    \A d, e \in Reconciliations :
        d # e => (d[4] - e[4] >= LOCK_TIMEOUT_SECONDS \/ e[4] - d[4] >= LOCK_TIMEOUT_SECONDS)

\* The non-empty header lines of a text other than those of the released
\* field, and whether the released field occurs
Released == call.fn \in {"release", "release_again"}
OtherLines(file) ==
    SelectSeq(splitlines(read_text(file).header), LAMBDA l : l # <<>> /\ l[1] # "lease")
HasLease(file) == \E i \in 1..Len(file.header) :
                     file.header[i] = "lease" /\ (i = 1 \/ file.header[i - 1] \in Newlines)
Cleared(file) == file.delims => ~HasLease(file)

\* C12 as stated: release clears the lease field, leaves the other header
\* fields and the body unchanged, and leaves the content of a record that
\* has no lease field unchanged.
C12_Original ==
    Released =>
        /\ Cleared(call.res)
        /\ OtherLines(call.res) = OtherLines(call.arg)
        /\ call.res.body = call.arg.body
        /\ ~HasLease(call.arg) => call.res = call.arg

\* The text of a file as written by the scripts: lines end in \n and the
\* header does not end in an empty line
LfOnly(t) == \A i \in 1..Len(t) : t[i] # "CRLF"
Canonical(file) ==
    /\ LfOnly(file.header) /\ LfOnly(file.body)
    /\ file.header # <<>> => file.header[Len(file.header)] \notin Newlines

\* C12 amended: release, and a release repeated on its result, clears the
\* lease field whoever set it and keeps the other non-empty header lines in
\* order and the body as read (with \r\n read as \n; a file without
\* header delimiters is not written at all); a record without lease field
\* keeps its text when its lines end in \n and its header does not end in
\* an empty line.
C12_ReleaseClearsLease ==
    Released =>
        /\ Cleared(call.res)
        /\ OtherLines(call.res) = OtherLines(call.arg)
        /\ call.res.body = IF call.arg.delims THEN universal_newlines(call.arg.body)
                            ELSE call.arg.body
        /\ (~HasLease(call.arg) /\ Canonical(call.arg)) => call.res = call.arg

C12_Witness ==
    /\ call.fn = "release_again"
    /\ call.arg.delims /\ call.arg.header = <<"status">> /\ call.res = call.arg
    /\ \E file \in DiskTexts : HasLease(file) /\ Len(file.header) = 3 /\ release(file) = call.arg

\* What a command does when the shell runs it: one of its simple commands
\* is a mutating verb with an accepted record (named literally or by a
\* glob) among its operands; it runs a lifecycle script
ShellDecided == call.fn = "shell_gate"
AtCommandPosition(command, i) == i = 1 \/ command[i - 1] = ";"
VerbOnAccepted(command) ==
    \E i \in 1..Len(command), j \in 1..Len(command) :
        /\ i < j
        /\ AtCommandPosition(command, i) /\ command[i] \in {"rm", "mv"}
        /\ command[j] \in {AccSuf, AccPre, Glob}
        /\ \A k \in (i + 1)..j : command[k] # ";"
RunsScript(command) ==
    Len(command) >= 2 /\ command[1] = "python3" /\ \E i \in 2..Len(command) : command[i] = Script

\* C13: a command that contains a mutating verb and an accepted record is
\* denied unless it is an invocation of an allow-listed lifecycle script.
C13_VerbOnAcceptedDenied ==
    (ShellDecided /\ VerbOnAccepted(call.arg) /\ ~RunsScript(call.arg))
        => call.res = "deny"

\* The direct-write gate has decided on the request call.arg.request with
\* the ledger call.arg.ledger
GateDecided == call.fn = "pre_tool_use"
Targets(request) == {request.targets[i] : i \in 1..Len(request.targets)}
ExistingAmendment(p) ==
    p.dir = "amendments" /\ p.name \in AllNames /\ amend[p.name] # NoFile
\* An accepted amendment or the accepted founding record on disk, or the
\* law file on disk while it is active or corrupted
Immutable(p) ==
    \/ ExistingAmendment(p) /\ p.name.pre = "none" /\ p.name.suf = "accepted"
    \/ \E s \in {"active", "corrupted"} : p = LawPath(s) /\ law[s] # NoFile

\* C14: a request that targets an accepted amendment, the accepted founding
\* record, or the law while it is active or corrupted, is denied whatever
\* the ledger, the identity and the payload.
C14_ImmutableTargetsDenied ==
    (GateDecided /\ \E p \in Targets(call.arg.request) : Immutable(p))
        => call.res = "deny"

\* The identity holds a token: it is recorded as authorized, or a pending
\* token is there for it to consume
HoldsToken(id, ledger) ==
    /\ ledger.kind = "json" /\ id # NoIdentity
    /\ (\E e \in ledger.authorized : e[1] = id) \/ ledger.pending # <<>>
TargetsResolvingLaw(request) ==
    LawPath("resolving") \in Targets(request) /\ law["resolving"] # NoFile

\* C15: a request that targets the resolving law is allowed only if the
\* invocation holds a token, and is denied when the ledger is missing or
\* unreadable or the invocation has no identity.
C15_ResolvingLawNeedsToken ==
    (GateDecided /\ TargetsResolvingLaw(call.arg.request) /\ call.res = "allow")
        => HoldsToken(call.arg.request.id, call.arg.ledger)

\* The tokens minted: those of the ledger, pending or handed out
TokensOf(ledger) ==
    {e[2] : e \in ledger.authorized} \cup {ledger.pending[i] : i \in 1..Len(ledger.pending)}

\* C16: the identities ever allowed to write the law are at most as many as
\* the tokens minted.
C16_OneIdentityPerToken ==
    Cardinality(allowed) <= Cardinality(TokensOf(runtime.file))

\* The payload sets the header status to accepted, bare or quoted
SetsStatusAccepted(text) ==
    \E i \in 1..Len(text) : text[i] \in {StatusAccepted, StatusAcceptedSQ, StatusAcceptedDQ}
TargetsExistingDraft(request) ==
    \E p \in Targets(request) : ExistingAmendment(p) /\ p.name.suf = "draft"

\* C17: a write that targets an existing draft and sets the header status
\* to accepted is denied.
C17_DraftNeverSetAccepted ==
    (GateDecided /\ TargetsExistingDraft(call.arg.request)
        /\ SetsStatusAccepted(call.arg.request.text))
        => call.res = "deny"

\* A path of amendments/ with a state decoration and no file on disk
NewAmendment(p) ==
    /\ p.dir = "amendments" /\ p.name \in AllNames /\ p.name.pre = "none"
    /\ p.name.suf \in {"draft", "accepted"} /\ amend[p.name] = NoFile
\* The header of the payload text, between its first two delimiter lines,
\* has the line status: draft
HeaderDeclaresDraft(text) ==
    /\ Len(text) >= 3 /\ text[1] = Delim
    /\ \E j \in 2..Len(text) :
          /\ text[j] = StatusDraft
          /\ \A m \in 2..j : text[m] # Delim
          /\ \E k \in (j + 1)..Len(text) : text[k] = Delim

\* C18: an allowed request names no new amendment path unless that path is
\* draft-decorated and the payload header declares status: draft.
C18_NewRecordsAreDrafts ==
    (GateDecided /\ call.res = "allow")
        => \A p \in Targets(call.arg.request) :
              NewAmendment(p) =>
                  p.name.suf = "draft" /\ HeaderDeclaresDraft(call.arg.request.text)

\* A rename of a constitutional record: a simple command mv whose two
\* operands are paths, one of them a record of amendments/
ConstitutionalPaths == InAmendmentsDir \cup {Glob}
RenamesRecord(command) ==
    \E i \in 1..Len(command) :
        /\ AtCommandPosition(command, i) /\ command[i] = "mv"
        /\ i + 2 <= Len(command)
        /\ {command[i + 1], command[i + 2]} \subseteq PathTokens
        /\ {command[i + 1], command[i + 2]} \cap ConstitutionalPaths # {}

\* C19: a command that renames a constitutional record and is not a
\* lifecycle script invocation is allowed only if it is the single mv from
\* the undecorated name to the draft-decorated name of the same timestamp.
C19_OnlyDraftDecorationRename ==
    (ShellDecided /\ RenamesRecord(call.arg) /\ ~RunsScript(call.arg) /\ call.res = "allow")
        => call.arg = <<"mv", Plain, DraftT1>>

\* C20 (shell-command gate): a command that starts with a binary and none
\* of whose tokens is a path under .constitution is allowed.
NamesNoRecord(command) ==
    /\ command # <<>> /\ command[1] \in {"cat", "rm", "mv", "python3"}
    /\ \A i \in 1..Len(command) : command[i] \notin ConstitutionalPaths
C20_ShellUnrelatedAllowed ==
    (ShellDecided /\ NamesNoRecord(call.arg)) => call.res = "allow"

\* C20 (direct-write gate): a request none of whose targets is a decorated
\* path of the constitutional tree is allowed.
Undecorated(p) == p.dir = "elsewhere" \/ p.name.suf \notin VALID_SUFFIXES
C20_WriteUnrelatedAllowed ==
    (GateDecided /\ \A p \in Targets(call.arg.request) : Undecorated(p))
        => call.res = "allow"

\* The verifier has run: its report is call.res, the files before the run
\* are pre
Verified(w) == Done(w, "verify") /\ call.fn = "verify_kernel_hash" /\ call.arg = w
ActiveBefore == pre.law["active"] # NoFile
StoredFingerprint(text) == IF text.fm THEN text.amendments_hash ELSE Absent
MovedToCorrupted ==
    law = [pre.law EXCEPT !["corrupted"] = pre.law["active"], !["active"] = NoFile]

\* C21: after a run of the verifier on an active law whose header has no
\* delimiters, the law is decorated corrupted and the run reports failure.
C21_UnparsableHeaderCorrupts ==
    \A w \in Workers :
        (Verified(w) /\ ActiveBefore /\ ~pre.law["active"].fm) =>
            /\ MovedToCorrupted
            /\ call.res.result = "FAIL"

\* C22: a law decorated corrupted is never moved or rewritten, and a law
\* becomes corrupted only from active with a header that does not parse.
C22_CorruptedIsTerminal ==
    [][/\ \A x \in LawsDecorated("corrupted") : law'[x] = law[x]
       /\ (law["corrupted"] = NoFile /\ law'["corrupted"] # NoFile) =>
              (law["active"] # NoFile /\ ~law["active"].fm)]_vars

\* The case a failing run of the verifier is in
VerifyCase ==
    IF ActiveBefore
    THEN IF ~pre.law["active"].decodable THEN "LAW_CORRUPTED" ELSE "HASH_MISMATCH"
    ELSE IF pre.law["resolving"] # NoFile THEN "LAW_STALE"
    ELSE IF pre.law["corrupted"] # NoFile THEN "LAW_CORRUPTED"
    ELSE "LAW_NOT_FOUND"

\* C23: a run of the verifier reports PASS with exit status 0 iff an active
\* law exists, is readable and stores the hash chain; otherwise it reports
\* FAIL with exit status 1 and the diagnostic code of the case; no amendment
\* changes and the law changes only by the move to corrupted.
C23_VerifyReport ==
    \A w \in Workers :
        Verified(w) =>
            /\ call.res.result = "PASS" <=>
                   /\ ActiveBefore /\ pre.law["active"].decodable
                   /\ StoredFingerprint(pre.law["active"]) = ChainNow
            /\ call.res.result = "PASS" => call.res.exit = 0 /\ call.res.code = "none"
            /\ call.res.result # "PASS" =>
                   /\ call.res.result = "FAIL" /\ call.res.exit = 1
                   /\ call.res.code = VerifyCase
            /\ amend = pre.amend
            /\ law = pre.law \/ MovedToCorrupted

C23_Witness ==
    \E w \in Workers :
        /\ Verified(w) /\ call.res.result = "PASS"
        /\ ActiveBefore /\ amend[AcceptedA0] # NoFile

\* The accepted records of a directory as (path, trimmed body) pairs, the
\* body taken byte for byte
TrimmedBody(file) == strip_text(IF file.delims THEN file.body ELSE file.header \o file.body)
AcceptedPairs(dir) ==
    {<<n, TrimmedBody(dir[n])>> : n \in {m \in DOMAIN dir : dir[m] # NoFile /\ m.suf = "accepted"}}
ChainComputed == call.fn = "compute_amendments_hash"

AcceptedPairsAsRead(dir) ==
    {<<p[1], [i \in 1..Len(p[2]) |-> IF p[2][i] = "CRLF" THEN "LF" ELSE p[2][i]]>> :
        p \in AcceptedPairs(dir)}

HeaderRewritten == call.fn = "rewrite_header" /\ call.res.error = "none"
FieldLines(text) == SelectSeq(text.lines, LAMBDA l : l.key # NoColon)
FieldPairs(text) == [i \in 1..Len(FieldLines(text)) |->
                        <<FieldLines(text)[i].key, FieldLines(text)[i].value>>]
KeysIn(text) == {FieldLines(text)[i].key : i \in 1..Len(FieldLines(text))}
FirstLine(text, k) ==
    CHOOSE i \in 1..Len(FieldLines(text)) :
        /\ FieldLines(text)[i].key = k
        /\ \A j \in 1..(i - 1) : FieldLines(text)[j].key # k
LastValue(text, k) ==
    LET i == CHOOSE i \in 1..Len(FieldLines(text)) :
                 /\ FieldLines(text)[i].key = k
                 /\ \A j \in (i + 1)..Len(FieldLines(text)) : FieldLines(text)[j].key # k
    IN FieldLines(text)[i].value
Removes(op) ==
    IF op = "APPLY_OK" THEN {"needs_input_reason_code", "needs_input_request"} ELSE {}
Touches(op) ==
    IF op = "write_map" THEN {}
    ELSE IF op \in {"stamp_pending", "stamp_ok"} THEN {"apply_ok_at"}
    ELSE IF op = "APPLY_OK" THEN {"status", "apply_ok_at"}
    ELSE {"status", "apply_ok_at", "needs_input_reason_code", "needs_input_request"}
KeptKeys(text, op) == KeysIn(text) \ Removes(op)

\* C25 as stated: a header rewrite keeps the fields it does not change in
\* their order and with their values, keeps the body byte for byte, drops
\* no field, and places a field it adds after all the fields that were there.
C25_Original ==
    HeaderRewritten =>
        LET before == call.arg.file
            after == call.res.text
            op == call.arg.op
        IN /\ after.body = before.body
           /\ op = "write_map" => FieldPairs(after) = FieldPairs(before)
           /\ \A k \in KeptKeys(before, op) : k \in KeysIn(after)
           /\ \A k \in KeysIn(after) \ KeysIn(before) :
                 \A x \in KeptKeys(before, op) : FirstLine(after, x) < FirstLine(after, k)

\* C25 amended: a header rewrite keeps every key it does not remove, at
\* the place of the key's first line relative to the other keys and, unless
\* the operation sets it, with the value of the key's last line; lines
\* without colon are dropped; the body is kept up to its line endings,
\* which are written as \n; a status the operation adds is the first field,
\* any other field it adds comes after all the fields that were there; a
\* rewrite that changes no field adds none.
C25_HeaderRoundTrip ==
    HeaderRewritten =>
        LET before == call.arg.file
            after == call.res.text
            op == call.arg.op
            kept == KeptKeys(before, op)
        IN /\ after.body = [i \in 1..Len(before.body) |->
                               IF before.body[i] = "CRLF" THEN "LF" ELSE before.body[i]]
           /\ \A i \in 1..Len(after.lines) :
                 /\ after.lines[i].key # NoColon
                 /\ \A j \in 1..Len(after.lines) : after.lines[j].key = after.lines[i].key => j = i
           /\ kept \subseteq KeysIn(after)
           /\ KeysIn(after) \subseteq kept \cup Touches(op)
           /\ \A k \in kept \ Touches(op) : LastValue(after, k) = LastValue(before, k)
           /\ \A k1, k2 \in kept :
                 FirstLine(before, k1) < FirstLine(before, k2)
                     => FirstLine(after, k1) < FirstLine(after, k2)
           /\ \A k \in KeysIn(after) \ KeysIn(before) :
                 IF k = "status" THEN FirstLine(after, k) = 1
                 ELSE \A x \in kept : FirstLine(after, x) < FirstLine(after, k)

\* A header without status and with a body that has a \r\n gets a negative
\* suitability result: the status is written before the title
C25_Witness ==
    /\ HeaderRewritten
    /\ call.arg.op = "NEEDS_INPUT"
    /\ KeysIn(call.arg.file) = {"title", "needs_input_request"}
    /\ \E i \in 1..Len(call.arg.file.body) : call.arg.file.body[i] = "CRLF"
    /\ FieldLines(call.res.text)[1].key = "status"
    /\ Len(call.res.text.lines) = 5

\* A name carries a state decoration: an emoji and a blank lead it
Decorated(name) == Len(name) >= 2 /\ name[1] \in VALID_EMOJIS /\ name[2] = " "
Bare(name) == IF Decorated(name) THEN [i \in 1..(Len(name) - 2) |-> name[i + 2]] ELSE name
NamesDecorated == call.fn = "decorate"

\* C26: for every state s and name b, base_name(make_name(s, b)) = b, and
\* make_name(s, b) carries the decoration s; for every name p and state s2,
\* swap_state(p, s2) is make_name(s2, .) of the base of p whatever decoration
\* p had; a name without decoration is reported not constitutional and
\* base_name returns it unchanged.
C26_DecorationRoundTrip ==
    NamesDecorated =>
        LET name == call.arg.name
            emoji == call.arg.emoji
        IN /\ call.res.base_of_made = name
           /\ Decorated(call.res.made) /\ call.res.made[1] = emoji
           /\ call.res.swapped = <<emoji, " ">> \o Bare(name)
           /\ call.res.constitutional <=> Decorated(name)
           /\ ~Decorated(name) => call.res.base = name /\ call.res.state = "None"
           /\ Decorated(name) => call.res.base = Bare(name) /\ call.res.state = name[1]

\* A draft name is swapped to accepted
C26_Witness ==
    /\ NamesDecorated
    /\ call.arg.name = <<"draft_dbl", " ", "x">>
    /\ call.arg.emoji = "accepted_dbl"
    /\ call.res.swapped = <<"accepted_dbl", " ", "x">>
    /\ call.res.base_of_made = call.arg.name

\* A promotion of the draft in review has died and a later promotion of the
\* same record has ended
ReviewedA1 == Name("none", "a1", "draft")
RetriedAfterCrash(w) ==
    /\ call.fn = "crash" /\ call.arg = ReviewedA1
    /\ Done(w, "promote") /\ out[w].arg = ReviewedA1

\* C27: when a promotion of a promotable record dies after any of its steps
\* and promotion is run again on the record, the second run succeeds, the
\* record is accepted, and a law that was active is resolving.
C27_CrashedPromotionRetries ==
    \A w \in Workers :
        RetriedAfterCrash(w) =>
            /\ out[w].res = "ok"
            /\ amend[with_suffix(ReviewedA1, "accepted")] # NoFile
            /\ call.res.law_active => law["active"] = NoFile /\ law["resolving"] # NoFile

\* The two halves of C27 apart: no crash leaves a record that can no longer
\* be promoted
C27_StillPromotable ==
    \A w \in Workers : RetriedAfterCrash(w) => out[w].res = "ok"

\* ... and none leaves a law active over a changed accepted set
C27_LawNotLeftActive ==
    \A w \in Workers :
        RetriedAfterCrash(w) /\ out[w].res = "ok" /\ call.res.law_active
            => law["active"] = NoFile

\* A step puts under the name of a record a text that is neither the text a
\* writer has prepared in full nor a whole file moved there
RecordNames == {n \in AllNames : n.suf # "tmp"}
Prepared(text) == \E w \in Workers : loc[w].text = text
TornAmendment ==
    \E n \in RecordNames :
        /\ amend'[n] # amend[n] /\ amend'[n] # NoFile
        /\ ~Prepared(amend'[n])
        /\ \A m \in AllNames : amend[m] # amend'[n]
TornLaw ==
    \E s \in LawSuffixes \ {"tmp"} :
        /\ law'[s] # law[s] /\ law'[s] # NoFile
        /\ ~Prepared(law'[s])
        /\ \A x \in LawSuffixes : law[x] # law'[s]

\* C28: every step of a header rewrite leaves under the name of a record
\* either the complete old text or the complete new text, so whoever reads
\* the file between two steps, or after the writer died there, sees one of
\* the two.
C28_NoTornHeader == [][~TornAmendment /\ ~TornLaw]_vars

\* The lease writes alone keep to it: a step of the turn-boundary hook
\* never leaves a torn file
C28_LeaseWritesAtomic ==
    [][(\E w \in Workers : pc[w] \in {"wf_tmp", "wf_rename"} /\ pc'[w] # pc[w])
          => ~TornAmendment /\ ~TornLaw]_vars

\* The law was active before the run, with a header; it is behind when its
\* stored fingerprint is not the hash chain of the accepted records
ActiveWithHeaderBefore == ActiveBefore /\ pre.law["active"].fm
BehindBefore == ActiveWithHeaderBefore /\ pre.law["active"].amendments_hash # ChainNow
MarkedStale ==
    /\ law["active"] = NoFile
    /\ law["resolving"] =
          [pre.law["active"] EXCEPT !.stale_reason = "amendments_drift_detected",
                                    !.stale_since_hash = pre.law["active"].amendments_hash,
                                    !.stale_amendment_path = NoName]
    /\ law["corrupted"] = pre.law["corrupted"]
GateRan(w, op) == Done(w, op) /\ amend = pre.amend

\* C29, direct-write gate: after its run an active law that was behind is
\* resolving, with the drift reason and the old fingerprint recorded, and
\* an active law that was not behind is as it was.
C29_DirectWriteGateDetects ==
    \A w \in Workers :
        GateRan(w, "gate") =>
            /\ BehindBefore => MarkedStale
            /\ ActiveWithHeaderBefore /\ ~BehindBefore => law = pre.law

\* C29, shell gate: the same after a run of the shell-command gate
C29_ShellGateDetects ==
    \A w \in Workers :
        GateRan(w, "shell_gate") =>
            /\ BehindBefore => MarkedStale
            /\ ActiveWithHeaderBefore /\ ~BehindBefore => law = pre.law

\* C29: both gates detect staleness before each decision
C29_GatesDetectStaleness == C29_DirectWriteGateDetects /\ C29_ShellGateDetects

\* A negative result on the text of a draft: what is written
NegativeOnText == call.fn = "rewrite_header" /\ call.arg.op = "NEEDS_INPUT"
RejectionWritten(before, after) ==
    /\ LastValue(after, "status") = "needs_input"
    /\ LastValue(after, "apply_ok_at") = "failed"
    /\ LastValue(after, "needs_input_reason_code") = "code"
    /\ LastValue(after, "needs_input_request") = "request"
    /\ \A k \in KeysIn(before) \ Touches("NEEDS_INPUT") :
          k \in KeysIn(after) /\ LastValue(after, k) = LastValue(before, k)
NothingWritten == call.res.text = call.arg.file

\* A negative result on a record of the directory, and a record that
\* promote_article would promote
Rejected(w) == Done(w, "suitability") /\ out[w].res = "NEEDS_INPUT"
RejectionRecorded(w) ==
    /\ amend = [pre.amend EXCEPT ![out[w].arg] =
                   [pre.amend[out[w].arg] EXCEPT !.status = "needs_input",
                                                 !.apply_ok_at = Failed,
                                                 !.needs_input = TRUE]]
    /\ law = pre.law
Promotable(n) ==
    /\ amend[n] # NoFile /\ amend[n].fm /\ n.suf = "draft"
    /\ amend[n].status = "review"
    /\ amend[n].apply_ok_at = sha256(strip(amend[n].body))
CarriesRejection(n) == amend[n] # NoFile /\ amend[n].fm /\ amend[n].needs_input
Lifecycle(body_kept) ==
    /\ NegativeOnText =>
          /\ call.res.error = "none" <=> call.arg.file.delims /\ call.arg.given
          /\ call.res.error # "none" => NothingWritten
          /\ call.arg.file.delims /\ ~call.arg.given =>
                call.res.error = "ValueError: NEEDS_INPUT requires --reason-code and --request."
          /\ call.res.error = "none" =>
                /\ RejectionWritten(call.arg.file, call.res.text)
                /\ body_kept
    /\ \A w \in Workers :
          /\ Rejected(w) => RejectionRecorded(w)
          /\ Done(w, "suitability") /\ out[w].res \in Errors => Unchanged
          /\ Done(w, "promote") /\ out[w].res = "ok" /\ ~AcceptedBefore(w) =>
                /\ ArticleBefore(w).status = "review"
                /\ ~ArticleBefore(w).needs_input
                /\ <<RecordId(out[w].arg), ArticleBefore(w).apply_ok_at>> \in stamped
    /\ \A n \in AllNames : CarriesRejection(n) => ~Promotable(n)

\* A run of apply_suitability_result on an existing record whose name
\* carries the draft prefix
AppliedToDraft(w) ==
    /\ Done(w, "suitability")
    /\ pre.amend[out[w].arg] # NoFile
    /\ out[w].arg.pre = "draft"

\* C30: a negative result with reason code and request applied to a draft
\* sets apply_ok_at to the failure sentinel, records reason code and
\* request, sets status needs_input and leaves the file name and, up to its
\* line endings, the body as they were; one without reason code or request
\* ends with the named error and writes nothing; a record that carries a
\* rejection is not promotable, and a promotion happens only on a record in
\* review whose last result is a positive one.  In particular a result
\* applied to a draft is not refused as applied to something else.
C30_Rejection ==
    /\ Lifecycle(call.res.text.body =
                     [i \in 1..Len(call.arg.file.body) |->
                         IF call.arg.file.body[i] = "CRLF" THEN "LF"
                         ELSE call.arg.file.body[i]])
    /\ \A w \in Workers :
          AppliedToDraft(w) => out[w].res # "ValueError: only to draft amendments"

\* C31: after a run of promote_founding that reports success, a law that
\* was active before the run is decorated resolving, as after the promotion
\* of an amendment.
C31_FoundingPromotionMarksLawStale ==
    \A w \in Workers :
        (/\ Done(w, "promote_founding") /\ out[w].res = "ok"
         /\ pre.law["active"] # NoFile) =>
            LawIs("resolving")

\* The accepted founding record was there before the run, under the name
\* promote_founding gives it or under the one the hash chain of
\* verify_kernel_hash reads
FoundingAcceptedBefore ==
    \E x \in {"accepted", "accepted_dbl"} : pre.amend[Name("none", Founding, x)] # NoFile

\* C32: a run of promote_founding that finds the accepted founding record
\* already there changes no file and reports success.
C32_FoundingRerunIsNoOp ==
    \A w \in Workers :
        (Done(w, "promote_founding") /\ FoundingAcceptedBefore) =>
            (out[w].res = "ok" /\ Unchanged)

\* What does hold of such a run: it changes no file
C32_FoundingRerunChangesNothing ==
    \A w \in Workers :
        (Done(w, "promote_founding") /\ FoundingAcceptedBefore) =>
            Unchanged


\* The record the after-edit hook was called on, as it was before the call:
\* a draft by the hook's own test (line 59), with a header, whose accepted
\* sibling does not exist
HookRecordBefore(w) == pre.amend[out[w].arg]
HookDraftBefore(w, statuses) ==
    /\ Done(w, "after_edit")
    /\ out[w].arg.pre = "draft"
    /\ HookRecordBefore(w) # NoFile
    /\ HookRecordBefore(w).fm
    /\ HookRecordBefore(w).status \in statuses
    /\ pre.amend[[out[w].arg EXCEPT !.pre = "accepted"]] = NoFile
OnlyStampChanged(w) ==
    /\ amend = [pre.amend EXCEPT ![out[w].arg] =
                   [HookRecordBefore(w) EXCEPT !.apply_ok_at = Pending]]
    /\ law = pre.law

\* C33: after the after-edit hook has run on a draft-decorated record whose
\* header status is draft, review or needs_input, apply_ok_at of the record
\* is the pending sentinel and nothing else has changed.
C33_AfterEditStampsPending ==
    \A w \in Workers :
        HookDraftBefore(w, {"draft", "review", "needs_input"}) => OnlyStampChanged(w)

\* C33 restricted to the records whose status is draft or review: the hook
\* stamps them, and only the stamp changes
C33_StampedWhenDraftOrReview ==
    \A w \in Workers :
        HookDraftBefore(w, {"draft", "review"}) => OnlyStampChanged(w)

\* C33, last part: a run of the hook on a record that carries the accepted
\* suffix (a member of the hash chain) changes no file
C33_AcceptedUntouched ==
    \A w \in Workers :
        (Done(w, "after_edit") /\ out[w].arg.suf = "accepted") => Unchanged


\* A run of promote_article that performed the promotion and reports success
Promoted(w) == Done(w, "promote") /\ out[w].res = "ok" /\ ~AcceptedBefore(w)
PromotedPath(w) == [out[w].arg EXCEPT !.suf = "accepted"]
FlippedLaw(w) == Promoted(w) /\ pre.law["active"] # NoFile /\ pre.law["active"].fm

\* C34, first part: the accepted file is the draft as it was without the
\* status field and the lease field.
C34_AcceptedHeaderStripped ==
    \A w \in Workers :
        Promoted(w) =>
            amend[PromotedPath(w)] =
                [ArticleBefore(w) EXCEPT !.status = "absent",
                                         !.evaluation_started_at = NoLease]

\* C34, second part: the law that was flipped to resolving carries the stale
\* reason, the path of the promoted record and, as stale_since_hash, the
\* fingerprint it had before the transition; its other fields are unchanged.
C34_LawCarriesDiagnostics ==
    \A w \in Workers :
        FlippedLaw(w) =>
            law["resolving"] =
                [pre.law["active"] EXCEPT
                    !.stale_reason = "amendment_accepted",
                    !.stale_amendment_path = PromotedPath(w),
                    !.stale_since_hash = pre.law["active"].amendments_hash]

\* What does hold of the law: the reason and the path are written, the
\* other fields, stale_since_hash among them, stay as they were
C34_LawCarriesReasonAndPath ==
    \A w \in Workers :
        FlippedLaw(w) =>
            law["resolving"] =
                [pre.law["active"] EXCEPT
                    !.stale_reason = "amendment_accepted",
                    !.stale_amendment_path = PromotedPath(w)]


\* A reconciliation of the text of a law that raised no error
Reconciled == call.fn \in {"reconcile", "reconcile_again"} /\ call.res.error = "none"
WrittenByReconciliation == {"amendments_hash", "last_reconciled_amendment"}
ReconciliationWrites(before, after, last) ==
    /\ "amendments_hash" \in KeysIn(after)
    /\ LastValue(after, "amendments_hash") = "sha256"
    /\ IF last # "None"
       THEN /\ "last_reconciled_amendment" \in KeysIn(after)
            /\ LastValue(after, "last_reconciled_amendment") = last
       ELSE /\ "last_reconciled_amendment" \in KeysIn(after)
                   <=> "last_reconciled_amendment" \in KeysIn(before)
            /\ "last_reconciled_amendment" \in KeysIn(after) =>
                   LastValue(after, "last_reconciled_amendment")
                       = LastValue(before, "last_reconciled_amendment")
ReconciliationKeeps(before, after, removed) ==
    LET kept == KeysIn(before) \ removed IN
    /\ KeysIn(after) \cap removed = {}
    /\ kept \subseteq KeysIn(after)
    /\ KeysIn(after) \subseteq kept \cup WrittenByReconciliation
    /\ \A k \in kept \ WrittenByReconciliation : LastValue(after, k) = LastValue(before, k)
    /\ \A k1, k2 \in kept :
          FirstLine(before, k1) < FirstLine(before, k2)
              => FirstLine(after, k1) < FirstLine(after, k2)
    /\ \A k \in KeysIn(after) \ KeysIn(before) :
          \A x \in kept : FirstLine(after, x) < FirstLine(after, k)
Idempotent == call.fn = "reconcile_again" => call.res.text = call.arg.file

TheDraft == Name("none", "a1", "draft")
DraftLease ==
    IF amend[TheDraft] # NoFile /\ amend[TheDraft].fm
    THEN amend[TheDraft].evaluation_started_at ELSE NoLease
LawLease ==
    IF law["resolving"] # NoFile /\ law["resolving"].fm
    THEN law["resolving"].resolution_started_at ELSE NoLease
DelegatedFrom(role, t) == \E d \in delegated : d[2] = role /\ d[4] >= t
\* The times a lease can be written at and expire within the time modelled
ExpiringLeases ==
    {t \in 0..MaxTime : t % TickSeconds = 0 /\ t + LOCK_TIMEOUT_SECONDS <= MaxTime}

\* C36: a lease that was written at time t and is never released does not
\* block the work for ever: while sessions keep running the turn-boundary
\* hook and the record keeps needing work, the work is eventually delegated
\* again, at a time later than t.
C36_AbandonedLeaseExpires ==
    \A t \in ExpiringLeases :
        /\ (DraftLease = t) ~> DelegatedFrom("ratifier", t + 1)
        /\ (LawLease = t) ~> DelegatedFrom("codifier", t + 1)

\* A lease that nobody has replaced is not taken over before its age has
\* reached the timeout: run one at a time, every delegation of the work on
\* the draft comes at least the timeout after the one before it
C36_NotBeforeTimeout ==
    \A d1, d2 \in delegated :
        (d1[2] = "ratifier" /\ d2[2] = "ratifier" /\ d1[4] < d2[4]) =>
            d2[4] - d1[4] >= LOCK_TIMEOUT_SECONDS

\* The work on the draft was delegated at time 0 and, the lease of that time
\* having expired, delegated again
C36_Witness ==
    /\ \E d \in delegated : d[2] = "ratifier" /\ d[4] = 0
    /\ DelegatedFrom("ratifier", LOCK_TIMEOUT_SECONDS)
    /\ DraftLease >= LOCK_TIMEOUT_SECONDS


\* The law files on disk under the three decorations
LawFilesOnDisk == LawFiles

\* C37: in every reachable state of concurrent promotions, reconciliations
\* and gate drift checks at most one law file exists among the active, the
\* resolving and the corrupted decoration.
C37_LawSingular == Cardinality(LawFilesOnDisk) <= 1

\* C37, second part: no step leaves the directory without a law file when
\* there was one.
C37_LawNeverLost == [][LawFilesOnDisk # {} => LawFilesOnDisk' # {}]_vars


\* No promotion of the record with that base name is in progress
PromotionFinished(b) ==
    \A w \in Workers : ~(pc[w] \in PromoteSteps /\ loc[w].arg.base = b)

\* C38: once promotion has finished, no draft-decorated file with the base
\* name of an accepted record exists, under every interleaving of promotion
\* with suitability stamping and edits of the same record.
C38_OneDecoration ==
    \A n \in AllNames :
        (amend[n] # NoFile /\ n.suf = "accepted" /\ PromotionFinished(n.base)) =>
            amend[[n EXCEPT !.suf = "draft"]] = NoFile


\* A run of sync_article_hash has completed, and the gate or verification
\* has run after it
ReconciledThen(fn) == call.fn = fn /\ call.arg.error = "none"

\* C39: a law that reconciliation has just made active is not flipped to
\* resolving by the next gate invocation when no file has changed, and
\* verification reports it PASS: the three scripts compute the same chain.
C39_ReconciledLawStands ==
    /\ ReconciledThen("hook_pre_tool_use") =>
          call.res.law.suffix \in {"active", "active_dbl"}
    /\ ReconciledThen("verify_kernel_hash") => call.res.report = "PASS"
    /\ (call.fn = "sync_article_hash" /\ call.res.error = "none") =>
          /\ call.res.law.amendments_hash = gate_chain_of(call.res.ws)
          /\ call.res.law.amendments_hash = verify_chain_of(call.res.ws)

\* C39, the gate against verification, which spell the suffixes alike:
\* their chains differ only on a workspace with an accepted
\* .constitution/FOUNDING file, or with an accepted amendment whose name
\* sorts before ".founding" next to the accepted founding record.
C39_GateDiffersOnlyThere ==
    gate_chain_of(call.res.ws) # verify_chain_of(call.res.ws) =>
        \/ call.res.ws[TopFounding] # "none"
        \/ call.res.ws[EarlyAmendment] # "none" /\ call.res.ws[AmendmentsFounding] # "none"

\* C39, the gate against verification: the same chain on every workspace
C39_GateChainIsVerifyChain ==
    gate_chain_of(call.res.ws) = verify_chain_of(call.res.ws)


\* A command mentions a constitutional path: one of its tokens is a path
\* under .constitution, written literally or as a pattern
MentionsRecord(command) == \E i \in 1..Len(command) : command[i] \in ConstitutionalPaths
\* One of its tokens is a literal path under .constitution/amendments
NamesLiteralRecord(command) == \E i \in 1..Len(command) : command[i] \in InAmendmentsDir
\* A read-only inspection command: it starts with an allow-listed binary and
\* has no redirection
ReadOnlyInspection(command) ==
    /\ command # <<>> /\ command[1] = "cat"
    /\ \A i \in 1..Len(command) : command[i] # ">"
\* The command starts with the name of a program
StartsWithBinary(command) ==
    command # <<>> /\ command[1] \in {"cat", "rm", "mv", "python3"}
\* The three exemptions of the statement
Exempt(command) ==
    \/ ReadOnlyInspection(command)
    \/ RunsScript(command)
    \/ command = <<"mv", Plain, DraftT1>>

\* C40: every command that mentions a constitutional path and is neither a
\* read-only inspection command, nor a lifecycle script invocation, nor the
\* undecorated-to-draft rename is denied, with or without a mutating verb.
C40_DefaultDeny ==
    (ShellDecided /\ StartsWithBinary(call.arg) /\ MentionsRecord(call.arg)
        /\ ~Exempt(call.arg))
        => call.res = "deny"

\* C40, for a command that names a record by a literal path under
\* .constitution/amendments: it is denied unless exempt, with or without a
\* mutating verb.
C40_LiteralPathDenied ==
    (ShellDecided /\ StartsWithBinary(call.arg) /\ NamesLiteralRecord(call.arg)
        /\ ~Exempt(call.arg))
        => call.res = "deny"

\* The shell-command gate has denied a command without any mutating verb
\* that names an accepted record literally
C40_DeniedWithoutVerb ==
    /\ ShellDecided /\ call.arg = <<"python3", AccSuf>>
    /\ call.res = "deny"


====
